---- MODULE Spec2Model ----
(***************************************************************************)
(* Hybrid ranking engine of the minimarket search application:             *)
(* BM25Engine (core/bm25_engine.py), the geo utilities                     *)
(* (core/geo_utils.py), the tokenizer (core/preprocessing.py) and          *)
(* HeuristicRanker (core/ranking.py) and Evaluator (core/evaluation.py).   *)
(*                                                                         *)
(* Python floats are modelled in fixed point: a float x is the integer     *)
(* x * Scale (rounded towards minus infinity by every division).           *)
(* None / NaN are modelled as the empty tuple <<>> and a present value v   *)
(* as <<v>>.                                                               *)
(***************************************************************************)
EXTENDS Integers, Sequences, FiniteSets, TLC

VARIABLES engine, ret, df, corpus, bm25, results, relevance, evaluator, metrics,
          geo, component_evaluator, report, writer, reader

vars == <<engine, ret, df, corpus, bm25, results, relevance, evaluator, metrics,
          geo, component_evaluator, report, writer, reader>>

-----------------------------------------------------------------------------
(* Bounds of the model *)

MaxDocs == 2

MaxQueryLen == 2

MaxRows == 2

\* the longest sequence of relevance labels given to an Evaluator
MaxLabels == 5

\* the largest distance, in km, offered to calculate_distance_score
MaxKm == 12

\* the longest list of scores or distances given to a ComponentEvaluator
MaxReported == 3

\* the most rows of a result frame given to evaluate_components
MaxFrameRows == 2

-----------------------------------------------------------------------------
(* Fixed-point arithmetic standing for Python's float arithmetic *)

Scale == 10000

Abs(x) == IF x < 0 THEN -x ELSE x

\* a * b of two fixed-point numbers
FMul(a, b) == (a * b) \div Scale

\* a / b of two fixed-point numbers (b # 0)
FDiv(a, b) == (a * Scale) \div b

\* int / int as a float
TrueDiv(a, b) == (a * Scale) \div b

Range(s) == {s[i] : i \in DOMAIN s}

RECURSIVE SumSeq(_)
SumSeq(s) == IF s = <<>> THEN 0 ELSE Head(s) + SumSeq(Tail(s))

\* min(a, b)
Min(a, b) == IF a <= b THEN a ELSE b

MinSeq(s) == CHOOSE x \in Range(s) : \A y \in Range(s) : x <= y

MaxSeq(s) == CHOOSE x \in Range(s) : \A y \in Range(s) : x >= y

\* sum over k = n, n+2, ... of pw_k / k with pw_(k+2) = pw_k * z2:
\* the series of atanh, cut where the fixed-point power reaches 0
RECURSIVE AtanhSeries(_, _, _)
AtanhSeries(pw, z2, n) ==
    IF pw = 0 THEN 0
    ELSE pw \div n + AtanhSeries(FMul(pw, z2), z2, n + 2)

\* ln(x) for x >= 1, as 2 * atanh((x - 1) / (x + 1))
LogGE1(x) ==
    LET z == FDiv(x - Scale, x + Scale)
    IN  2 * AtanhSeries(z, FMul(z, z), 1)

\* math.log(x), x > 0
log(x) == IF x >= Scale THEN LogGE1(x) ELSE -LogGE1(FDiv(Scale, x))

-----------------------------------------------------------------------------
(* Python values *)

None == <<>>

Some(v) == <<v>>

\* what a call leaves with its caller: the value returned or the exception raised
Return(v) == [exc |-> "", value |-> v]

Raise(e) == [exc |-> e, value |-> 0]

\* list[i] of a Python list held as a sequence: negative indices count from the end
IndexInRange(list, i) == i < Len(list) /\ i >= -Len(list)

ListGet(list, i) == IF i >= 0 THEN list[i + 1] ELSE list[Len(list) + i + 1]

\* dict.get(key, default)
DictGet(d, key, default) == IF key \in DOMAIN d THEN d[key] ELSE default

EmptyDict == [t \in {} |-> 0]

\* d[key] = value
DictSet(d, key, value) ==
    [x \in DOMAIN d \cup {key} |-> IF x = key THEN value ELSE d[x]]

-----------------------------------------------------------------------------
(* config.py *)

BM25_K1 == 15000

BM25_B == 7500

-----------------------------------------------------------------------------
(* core/bm25_engine.py *)

BM25Engine_init ==
    [k1 |-> BM25_K1, b |-> BM25_B,
     corpus |-> <<>>, doc_lengths |-> <<>>, avgdl |-> 0, N |-> 0,
     doc_freqs |-> EmptyDict, idf |-> EmptyDict, doc_term_freqs |-> <<>>]

\* collections.Counter(doc)
Counter(doc) ==
    [t \in Range(doc) |-> Cardinality({i \in DOMAIN doc : doc[i] = t})]

\* the doc_freqs built by the loop of fit: per term, the number of documents holding it
DocFreqs(c) ==
    [t \in UNION {Range(c[i]) : i \in DOMAIN c} |->
        Cardinality({i \in DOMAIN c : t \in Range(c[i])})]

\* idf[term] = math.log((N - df + 0.5) / (df + 0.5) + 1)
IdfNoPlusOne(N, dfreq) ==
    log(FDiv((N - dfreq) * Scale + Scale \div 2, dfreq * Scale + Scale \div 2))

IdfValue(N, dfreq) ==
    log(FDiv((N - dfreq) * Scale + Scale \div 2, dfreq * Scale + Scale \div 2) + Scale)

\* bm25_engine.py line 64: sum(self.doc_lengths) / self.N, N not zero
AvgdlFloorDiv(doc_lengths, N) == (SumSeq(doc_lengths) \div N) * Scale

Avgdl(doc_lengths, N) == TrueDiv(SumSeq(doc_lengths), N)

_calculate_idf(self) ==
    [self EXCEPT !.idf = [t \in DOMAIN self.doc_freqs |-> IdfValue(self.N, self.doc_freqs[t])]]

BM25Engine_fit(self, c) ==
    IF Len(c) = 0
    THEN [self EXCEPT !.corpus = c, !.N = 0]
    ELSE _calculate_idf(
           [self EXCEPT
              !.corpus = c,
              !.N = Len(c),
              !.doc_lengths = [i \in DOMAIN c |-> Len(c[i])],
              !.avgdl = Avgdl([i \in DOMAIN c |-> Len(c[i])], Len(c)),
              !.doc_freqs = DocFreqs(c),
              !.doc_term_freqs = [i \in DOMAIN c |-> Counter(c[i])]])

\* bm25_engine.py lines 53-66: the statements of fit before its loop, in
\* program order
FitOrderLengthsFirst ==
    <<"corpus", "doc_lengths", "N", "return_if_empty", "avgdl", "doc_freqs",
      "doc_term_freqs">>

FitOrder ==
    <<"corpus", "N", "return_if_empty", "doc_lengths", "avgdl", "doc_freqs",
      "doc_term_freqs">>

\* the statement that follows statement in fit; the loop over the documents
\* (its first statement being the append of line 72) follows the last
StatementAfter(statement) ==
    LET at == CHOOSE i \in DOMAIN FitOrder : FitOrder[i] = statement
    IN  IF at < Len(FitOrder) THEN FitOrder[at + 1] ELSE "append"

\* the instance after one of the assignments of fit(c) before its loop
fit_assign(self, statement, c) ==
    CASE statement = "corpus" -> [self EXCEPT !.corpus = c]
      [] statement = "N" -> [self EXCEPT !.N = Len(c)]
      [] statement = "doc_lengths" ->
            [self EXCEPT !.doc_lengths = [i \in DOMAIN c |-> Len(c[i])]]
      [] statement = "avgdl" ->
            [self EXCEPT !.avgdl = Avgdl(self.doc_lengths, self.N)]
      [] statement = "doc_freqs" -> [self EXCEPT !.doc_freqs = EmptyDict]
      [] statement = "doc_term_freqs" -> [self EXCEPT !.doc_term_freqs = <<>>]
      [] OTHER -> self

\* bm25_engine.py lines 124-132: idf * numerator / denominator of one term,
\* avgdl not zero
term_score(k1, b, idf, tf, doc_len, avgdl) ==
    LET numerator == tf * (k1 + Scale)
        denominator ==
            tf * Scale
            + FMul(k1, Scale - b + FDiv(FMul(b, doc_len * Scale), avgdl))
    IN  FDiv(FMul(idf, numerator), denominator)

\* the loop of score over the query terms from position i on, score being acc so far
RECURSIVE ScoreLoop(_, _, _, _, _, _)
ScoreLoop(self, query, i, acc, doc_len, term_freqs) ==
    IF i > Len(query) THEN Return(acc)
    ELSE LET term == query[i]
             tf   == DictGet(term_freqs, term, 0)
         IN  IF term \notin DOMAIN self.idf
             THEN ScoreLoop(self, query, i + 1, acc, doc_len, term_freqs)
             ELSE IF tf = 0
             THEN ScoreLoop(self, query, i + 1, acc, doc_len, term_freqs)
             ELSE IF self.avgdl = 0
             THEN Raise("ZeroDivisionError")
             ELSE ScoreLoop(self, query, i + 1,
                            acc + term_score(self.k1, self.b, self.idf[term], tf,
                                             doc_len, self.avgdl),
                            doc_len, term_freqs)

BM25Engine_score(self, query, doc_idx) ==
    IF doc_idx >= self.N THEN Return(0)
    ELSE IF ~IndexInRange(self.doc_lengths, doc_idx) THEN Raise("IndexError")
    ELSE IF ~IndexInRange(self.doc_term_freqs, doc_idx) THEN Raise("IndexError")
    ELSE ScoreLoop(self, query, 1, 0,
                   ListGet(self.doc_lengths, doc_idx),
                   ListGet(self.doc_term_freqs, doc_idx))

\* [self.score(query, idx) for idx in range(self.N)]
RECURSIVE AllScoresFrom(_, _, _)
AllScoresFrom(self, query, idx) ==
    IF idx >= self.N THEN Return(<<>>)
    ELSE LET s == BM25Engine_score(self, query, idx)
             rest == AllScoresFrom(self, query, idx + 1)
         IN  IF s.exc # "" THEN Raise(s.exc)
             ELSE IF rest.exc # "" THEN Raise(rest.exc)
             ELSE Return(<<s.value>> \o rest.value)

get_all_scores(self, query) == AllScoresFrom(self, query, 0)

\* bm25_engine.py line 146: the score is kept
ScoreKeptNonNegative(s) == s >= 0

ScoreKept(s) == s > 0

\* bm25_engine.py lines 144-147: the pairs <<idx, s>> of the documents from idx
\* on whose score is kept
RECURSIVE ScoresFrom(_, _, _)
ScoresFrom(self, query, idx) ==
    IF idx >= self.N THEN Return(<<>>)
    ELSE LET s == BM25Engine_score(self, query, idx)
             rest == ScoresFrom(self, query, idx + 1)
         IN  IF s.exc # "" THEN Raise(s.exc)
             ELSE IF rest.exc # "" THEN Raise(rest.exc)
             ELSE Return((IF ScoreKept(s.value) THEN <<(<<idx, s.value>>)>> ELSE <<>>)
                         \o rest.value)

\* scores.sort(key=lambda x: x[1], reverse=True): list.sort is stable, also
\* with reverse=True, so pairs of equal score keep their order
sort_by_score_reverse(scores) ==
    LET n == Len(scores)
        p == CHOOSE q \in {f \in [1..n -> 1..n] : \A i, j \in 1..n : f[i] = f[j] => i = j} :
                 \A i, j \in 1..n :
                     i < j => \/ scores[q[i]][2] > scores[q[j]][2]
                              \/ scores[q[i]][2] = scores[q[j]][2] /\ q[i] < q[j]
    IN  [i \in 1..n |-> scores[p[i]]]

\* list[:k]
SliceTo(list, k) ==
    IF k >= 0 THEN SubSeq(list, 1, IF k < Len(list) THEN k ELSE Len(list))
    ELSE SubSeq(list, 1, Len(list) + k)

BM25Engine_search(self, query, top_k) ==
    LET scores == ScoresFrom(self, query, 0)
    IN  IF scores.exc # "" THEN Raise(scores.exc)
        ELSE Return(SliceTo(sort_by_score_reverse(scores.value), top_k))

\* [t for t in query if t in self.doc_freqs] and its complement
MatchedTerms(self, query) ==
    SelectSeq(query, LAMBDA t : t \in DOMAIN self.doc_freqs)

UnmatchedTerms(self, query) ==
    SelectSeq(query, LAMBDA t : t \notin DOMAIN self.doc_freqs)

get_query_match_stats(self, query) ==
    IF Len(query) = 0
    THEN [query_terms |-> 0, matched_terms |-> 0, term_match_rate |-> 0,
          matched_term_list |-> <<>>, unmatched_term_list |-> <<>>]
    ELSE LET matched_terms == MatchedTerms(self, query)
             unmatched_terms == UnmatchedTerms(self, query)
             avg_idf ==
                 IF Len(matched_terms) > 0
                 THEN SumSeq([i \in DOMAIN matched_terms |->
                                 DictGet(self.idf, matched_terms[i], 0)])
                      \div Len(matched_terms)
                 ELSE 0
         IN  [query_terms |-> Len(query),
              matched_terms |-> Len(matched_terms),
              term_match_rate |-> TrueDiv(Len(matched_terms), Len(query)),
              matched_term_list |-> matched_terms,
              unmatched_term_list |-> unmatched_terms,
              avg_idf |-> avg_idf]

-----------------------------------------------------------------------------
(* core/preprocessing.py.  A str is a TLA+ string; its characters are the
   one-character strings Head gives. *)

STOPWORDS_ID ==
    {"yang", "di", "dan", "ke", "dari", "ini", "itu", "dengan", "untuk",
     "pada", "adalah", "sebagai", "dalam", "tidak", "akan", "juga", "atau",
     "ada", "mereka", "sudah", "saya", "seperti", "dapat", "jika", "hanya",
     "oleh", "saat", "harus", "antara", "setelah", "belum", "atas", "bawah",
     "rt", "rw", "no", "jl", "jalan", "kel", "kota", "kec"}

very_common == {"yang", "di", "dan", "ke", "dari", "ini", "itu", "dengan"}

\* str.lower() on one character
LowerCase ==
    [c \in {"A", "B", "C", "D", "E", "F", "G", "H", "I", "J", "K", "L", "M",
            "N", "O", "P", "Q", "R", "S", "T", "U", "V", "W", "X", "Y", "Z"} |->
        CASE c = "A" -> "a" [] c = "B" -> "b" [] c = "C" -> "c" [] c = "D" -> "d"
          [] c = "E" -> "e" [] c = "F" -> "f" [] c = "G" -> "g" [] c = "H" -> "h"
          [] c = "I" -> "i" [] c = "J" -> "j" [] c = "K" -> "k" [] c = "L" -> "l"
          [] c = "M" -> "m" [] c = "N" -> "n" [] c = "O" -> "o" [] c = "P" -> "p"
          [] c = "Q" -> "q" [] c = "R" -> "r" [] c = "S" -> "s" [] c = "T" -> "t"
          [] c = "U" -> "u" [] c = "V" -> "v" [] c = "W" -> "w" [] c = "X" -> "x"
          [] c = "Y" -> "y" [] c = "Z" -> "z"]

\* the characters the pattern \w matches
WordChars ==
    {"a", "b", "c", "d", "e", "f", "g", "h", "i", "j", "k", "l", "m",
     "n", "o", "p", "q", "r", "s", "t", "u", "v", "w", "x", "y", "z",
     "0", "1", "2", "3", "4", "5", "6", "7", "8", "9", "_"}
    \cup DOMAIN LowerCase

\* the characters the pattern \s matches
SpaceChars == {" ", "\t", "\n"}

\* text.lower()
RECURSIVE lower(_)
lower(text) ==
    IF text = "" THEN ""
    ELSE (IF Head(text) \in DOMAIN LowerCase THEN LowerCase[Head(text)] ELSE Head(text))
         \o lower(Tail(text))

\* re.sub(r'[^\w\s\-]', ' ', text)
RECURSIVE sub_punctuation(_)
sub_punctuation(text) ==
    IF text = "" THEN ""
    ELSE (IF Head(text) \in WordChars \cup SpaceChars \cup {"-"} THEN Head(text) ELSE " ")
         \o sub_punctuation(Tail(text))

\* re.sub(r'\s+', ' ', text); inrun: the character before text was whitespace
RECURSIVE sub_spaces(_, _)
sub_spaces(text, inrun) ==
    IF text = "" THEN ""
    ELSE IF Head(text) \in SpaceChars
         THEN (IF inrun THEN "" ELSE " ") \o sub_spaces(Tail(text), TRUE)
         ELSE Head(text) \o sub_spaces(Tail(text), FALSE)

RECURSIVE lstrip(_)
lstrip(text) ==
    IF text # "" /\ Head(text) \in SpaceChars THEN lstrip(Tail(text)) ELSE text

RECURSIVE rstrip(_)
rstrip(text) ==
    IF text # "" /\ SubSeq(text, Len(text), Len(text)) \in SpaceChars
    THEN rstrip(SubSeq(text, 1, Len(text) - 1))
    ELSE text

\* text.strip()
strip(text) == rstrip(lstrip(text))

clean_text(text) == strip(sub_spaces(sub_punctuation(lower(text)), FALSE))

\* text.split(): the maximal runs of non-whitespace characters; cur is the run being read
RECURSIVE split(_, _)
split(text, cur) ==
    IF text = "" THEN (IF cur = "" THEN <<>> ELSE <<cur>>)
    ELSE IF Head(text) \in SpaceChars
         THEN (IF cur = "" THEN <<>> ELSE <<cur>>) \o split(Tail(text), "")
         ELSE split(Tail(text), cur \o Head(text))

tokenize(text) == IF text = "" THEN <<>> ELSE split(text, "")

\* [t for t in tokens if t not in stop and len(t) > 1]
RECURSIVE FilterTokens(_, _)
FilterTokens(tokens, stop) ==
    IF tokens = <<>> THEN <<>>
    ELSE (IF Head(tokens) \notin stop /\ Len(Head(tokens)) > 1 THEN <<Head(tokens)>> ELSE <<>>)
         \o FilterTokens(Tail(tokens), stop)

remove_stopwords(tokens) == FilterTokens(tokens, STOPWORDS_ID)

preprocess_text(text) == remove_stopwords(tokenize(clean_text(text)))

preprocess_query(query) == FilterTokens(tokenize(clean_text(query)), very_common)

\* ' '.join(fields)
RECURSIVE join(_, _)
join(sep, fields) ==
    IF Len(fields) = 0 THEN ""
    ELSE IF Len(fields) = 1 THEN Head(fields)
    ELSE Head(fields) \o sep \o join(sep, Tail(fields))

\* the text of the column name of a row, when the row has that column
FieldOf(row, name) == IF name \in DOMAIN row THEN <<row[name]>> ELSE <<>>

\* ' '.join of the text columns a row has
create_document_field(row) ==
    join(" ", FieldOf(row, "nama_tempat") \o FieldOf(row, "alamat_tempat")
              \o FieldOf(row, "nama_kelurahan") \o FieldOf(row, "nama_kecamatan")
              \o FieldOf(row, "store"))

\* sub in text
Contains(text, sub) ==
    \E i \in 1..(Len(text) - Len(sub) + 1) : SubSeq(text, i, i + Len(sub) - 1) = sub

-----------------------------------------------------------------------------
(* core/geo_utils.py.  A coordinate is held in thousandths of a degree, an
   angle in micro-radians (the float times Micro), the haversine term a in
   units of 10^-12, a distance in km as the float times Scale.  The
   coordinates of the model lie within a few km of each other, where the
   products below stay inside TLC's 32-bit integers. *)

Micro == 1000000

MAX_DISTANCE_KM == 10

EARTH_RADIUS_KM == 6371

Sign(x) == IF x < 0 THEN -1 ELSE 1

\* a * b of two numbers in units of 10^-6; factors too large for an exact
\* 32-bit product are multiplied with their last two digits dropped
MMul(a, b) ==
    IF Abs(a) < 46341 /\ Abs(b) < 46341
    THEN Sign(a) * Sign(b) * ((Abs(a) * Abs(b)) \div Micro)
    ELSE Sign(a) * Sign(b) * (((Abs(a) \div 100) * (Abs(b) \div 100)) \div 100)

\* math.radians(deg): deg * pi / 180
radians(mdeg) == Sign(mdeg) * ((Abs(mdeg) * 17453) \div 1000)

\* math.sin(x) = x - x^3/6 + x^5/120 - ...
sin(x) ==
    LET x2 == MMul(x, x)
        x3 == MMul(x2, x)
        x5 == MMul(x3, x2)
    IN  x - x3 \div 6 + x5 \div 120

\* math.cos(x) = 1 - x^2/2 + x^4/24 - ...
cos(x) ==
    LET x2 == MMul(x, x)
        x4 == MMul(x2, x2)
    IN  Micro - x2 \div 2 + x4 \div 24

\* math.asin(x) = x + x^3/6 + 3 x^5/40 + ...
asin(x) ==
    LET x2 == MMul(x, x)
        x3 == MMul(x2, x)
        x5 == MMul(x3, x2)
    IN  x + x3 \div 6 + (3 * x5) \div 40

\* Newton's iteration for the integer square root, from an upper estimate r
RECURSIVE SqrtFrom(_, _)
SqrtFrom(n, r) ==
    LET next == (r + n \div r) \div 2
    IN  IF next >= r THEN r ELSE SqrtFrom(n, next)

\* math.sqrt(a) of a in units of 10^-12, in units of 10^-6
sqrt(a) == IF a = 0 THEN 0 ELSE SqrtFrom(a, 46341)

haversine_distance(lat1, lon1, lat2, lon2) ==
    LET lat1_rad == radians(lat1)
        lat2_rad == radians(lat2)
        lon1_rad == radians(lon1)
        lon2_rad == radians(lon2)
        dlat == lat2_rad - lat1_rad
        dlon == lon2_rad - lon1_rad
        sin_dlat == sin(Sign(dlat) * (Abs(dlat) \div 2))
        sin_dlon == sin(Sign(dlon) * (Abs(dlon) \div 2))
        a == sin_dlat * sin_dlat
             + (MMul(cos(lat1_rad), cos(lat2_rad)) \div 1000)
               * ((sin_dlon * sin_dlon) \div 1000)
        c == 2 * asin(sqrt(a))
    IN  (EARTH_RADIUS_KM * c) \div 100

\* geo_utils.py line 72: the distance lies at or beyond max_distance (in km)
AtOrBeyondStrict(distance, max_distance) == distance > max_distance * Scale

AtOrBeyond(distance, max_distance) == distance >= max_distance * Scale

\* calculate_distance_score(distance, max_distance): max_distance is None or
\* Some(km); the division of line 75 raises when its divisor is zero
calculate_distance_score(distance, max_distance) ==
    LET max_dist == IF max_distance = None THEN MAX_DISTANCE_KM
                    ELSE max_distance[1]
    IN  IF AtOrBeyond(distance, max_dist)
        THEN Return(0)
        ELSE IF max_dist = 0
             THEN Raise("ZeroDivisionError")
             ELSE LET score == Scale - FDiv(distance, max_dist * Scale)
                  IN  Return(MaxSeq(<<0, MinSeq(<<Scale, score>>)>>))

-----------------------------------------------------------------------------
(* numpy / pandas helpers used by core/ranking.py *)

\* Series.fillna(0) on one value
fillna(x, d) == IF x = None THEN d ELSE x[1]

\* the values of s at the positions where they are present (NaN skipped)
RECURSIVE dropna(_)
dropna(s) ==
    IF s = <<>> THEN <<>>
    ELSE (IF Head(s) = None THEN <<>> ELSE <<Head(s)[1]>>) \o dropna(Tail(s))

Injective(p) == \A i, j \in DOMAIN p : p[i] = p[j] => i = j

IndexPermutations(n) == {p \in [1..n -> 1..n] : Injective(p)}

\* sorted(s) of a sequence of numbers
SortedSeq(s) ==
    LET p == CHOOSE q \in IndexPermutations(Len(s)) :
                 \A i \in 1..(Len(s) - 1) : s[q[i]] <= s[q[i + 1]]
    IN  [i \in DOMAIN s |-> s[p[i]]]

\* np.median(s), s not empty
np_median(s) ==
    LET o == SortedSeq(s)
        n == Len(s)
    IN  IF n % 2 = 1 THEN o[(n + 1) \div 2]
        ELSE (o[n \div 2] + o[n \div 2 + 1]) \div 2

\* np.percentile(s, 75), s not empty: linear interpolation at position
\* 0.75 * (n - 1); the fixed-point result is rounded up, which leaves
\* x >= np.percentile(...) for a fixed-point x what it is for the exact value
np_percentile_75(s) ==
    LET o == SortedSeq(s)
        n == Len(s)
        lo == (3 * (n - 1)) \div 4
        fr == (3 * (n - 1)) % 4
    IN  IF fr = 0 THEN o[lo + 1]
        ELSE o[lo + 1] + ((o[lo + 2] - o[lo + 1]) * fr + 3) \div 4

-----------------------------------------------------------------------------
(* core/ranking.py.  A DataFrame is the sequence of its rows, a row a record
   of its columns; a row of a result carries in orig_index the position it had
   in the fitted dataset (the index label pandas keeps until reset_index). *)

WEIGHT_BM25 == 4000

WEIGHT_DISTANCE == 3000

WEIGHT_RATING == 2000

WEIGHT_POPULARITY == 1000

HeuristicRanker_init == [df |-> None, corpus |-> <<>>, bm25 |-> BM25Engine_init]

HeuristicRanker_fit(self, d) ==
    LET c == [i \in DOMAIN d |-> preprocess_text(create_document_field(d[i]))]
    IN  [df |-> Some(d), corpus |-> c, bm25 |-> BM25Engine_fit(self.bm25, c)]

normalize_scores_no_equal_case(scores) ==
    IF scores = <<>> THEN <<>>
    ELSE LET min_score == MinSeq(scores)
             max_score == MaxSeq(scores)
         IN  [i \in DOMAIN scores |->
                 IF max_score = min_score THEN 0
                 ELSE FDiv(scores[i] - min_score, max_score - min_score)]

_normalize_scores(scores) ==
    IF scores = <<>> THEN <<>>
    ELSE LET min_score == MinSeq(scores)
             max_score == MaxSeq(scores)
         IN  IF max_score = min_score
             THEN [i \in DOMAIN scores |-> Scale \div 2]
             ELSE [i \in DOMAIN scores |->
                      FDiv(scores[i] - min_score, max_score - min_score)]

HasLocation(user_lat, user_lon) == user_lat # None /\ user_lon # None

\* ranking.py lines 108-124: distance_km and distance_score of one row
distance_columns_no_neutral(row, user_lat, user_lon) ==
    IF HasLocation(user_lat, user_lon)
    THEN LET dist == haversine_distance(user_lat[1], user_lon[1],
                                        row.latitude, row.longitude)
         IN  [distance_km |-> dist,
              distance_score |-> calculate_distance_score(dist, None).value]
    ELSE [distance_km |-> 0,
          distance_score |-> calculate_distance_score(0, None).value]

distance_columns(row, user_lat, user_lon) ==
    IF HasLocation(user_lat, user_lon)
    THEN LET dist == haversine_distance(user_lat[1], user_lon[1],
                                        row.latitude, row.longitude)
         IN  [distance_km |-> dist,
              distance_score |-> calculate_distance_score(dist, None).value]
    ELSE [distance_km |-> 0, distance_score |-> Scale \div 2]

\* ranking.py line 127: rating_tempat.fillna(0) / 5.0 of one row
RatingScore(rating_tempat) == FDiv(fillna(rating_tempat, 0), 5 * Scale)

\* ranking.py lines 131-134 for one row; max_ratings is NaN when no row has a
\* popularity, and NaN > 0 is false
PopularityScoreNeutral(user_ratings_total, max_ratings) ==
    IF max_ratings # None /\ max_ratings[1] > 0
    THEN TrueDiv(fillna(user_ratings_total, 0), max_ratings[1])
    ELSE Scale \div 2

PopularityScore(user_ratings_total, max_ratings) ==
    IF max_ratings # None /\ max_ratings[1] > 0
    THEN TrueDiv(fillna(user_ratings_total, 0), max_ratings[1])
    ELSE 0

\* ranking.py lines 98-142: the dataset with every score column added
ScoredRows(d, bm25_scores, user_lat, user_lon) ==
    LET norm == _normalize_scores(bm25_scores)
        pops == dropna([i \in DOMAIN d |-> d[i].user_ratings_total])
        \* Series.max() skips NaN and is NaN when nothing is left
        max_ratings == IF pops = <<>> THEN None ELSE Some(MaxSeq(pops))
        dist == [i \in DOMAIN d |-> distance_columns(d[i], user_lat, user_lon)]
        rating_score(i) == RatingScore(d[i].rating_tempat)
        popularity_score(i) == PopularityScore(d[i].user_ratings_total, max_ratings)
    IN  [i \in DOMAIN d |->
            [orig_index |-> i - 1,
             bm25_score |-> bm25_scores[i],
             bm25_score_norm |-> norm[i],
             distance_km |-> dist[i].distance_km,
             distance_score |-> dist[i].distance_score,
             rating_score |-> rating_score(i),
             popularity_score |-> popularity_score(i),
             final_score |->
                 FMul(WEIGHT_BM25, norm[i])
                 + FMul(WEIGHT_DISTANCE, dist[i].distance_score)
                 + FMul(WEIGHT_RATING, rating_score(i))
                 + FMul(WEIGHT_POPULARITY, popularity_score(i)),
             rank |-> 0] @@ d[i]]

\* result_df[mask]: the rows where the boolean mask holds, in their order
SelectRows(rows, mask) ==
    LET kept == {i \in DOMAIN rows : mask[i]}
    IN  [k \in 1..Cardinality(kept) |->
            rows[CHOOSE i \in kept : Cardinality({j \in kept : j <= i}) = k]]

\* ranking.py lines 144-146
StoreFilterActiveNoSentinel(store_filter) ==
    store_filter # None /\ store_filter[1] # ""

StoreFilterActive(store_filter) ==
    store_filter # None /\ store_filter[1] # "" /\ store_filter[1] # "Semua"

apply_store_filter(rows, store_filter) ==
    IF StoreFilterActive(store_filter)
    THEN SelectRows(rows, [i \in DOMAIN rows |-> rows[i].store = store_filter[1]])
    ELSE rows

\* ranking.py lines 148-150
TextMatchNonNegative(r) == r.bm25_score >= 0

TextMatch(r) == r.bm25_score > 0

apply_text_match(rows, require_text_match) ==
    IF require_text_match
    THEN SelectRows(rows, [i \in DOMAIN rows |-> TextMatch(rows[i])])
    ELSE rows

\* sort_values('final_score', ascending=False) with the default kind
\* 'quicksort', which is not a stable sort: every order of the rows that is
\* non-increasing in final_score is a possible outcome
sort_values_ascending(rows) ==
    {[i \in DOMAIN rows |-> rows[p[i]]] :
        p \in {q \in IndexPermutations(Len(rows)) :
                  \A i \in 1..(Len(rows) - 1) :
                      rows[q[i]].final_score <= rows[q[i + 1]].final_score}}

sort_values(rows) ==
    {[i \in DOMAIN rows |-> rows[p[i]]] :
        p \in {q \in IndexPermutations(Len(rows)) :
                  \A i \in 1..(Len(rows) - 1) :
                      rows[q[i]].final_score >= rows[q[i + 1]].final_score}}

\* DataFrame.head(n): the first n rows, all but the last -n for a negative n
head(rows, n) ==
    IF n >= 0 THEN SubSeq(rows, 1, MinSeq(<<n, Len(rows)>>))
    ELSE SubSeq(rows, 1, Len(rows) + n)

\* ranking.py line 159: result_df['rank'] = range(1, len(result_df) + 1)
add_rank(rows) == [i \in DOMAIN rows |-> [rows[i] EXCEPT !.rank = i]]

\* a DataFrame returned by rank: pd.DataFrame() has no columns
DataFrame(has_columns, rows) == [columns |-> has_columns, rows |-> rows]

\* the condition of ranking.py line 92
NotFittedEmptyOnly(self) == self.df # None /\ Len(self.df[1]) = 0

NotFitted(self) == self.df = None \/ Len(self.df[1]) = 0

\* the columns of a dataset of at least one row
Columns(d) == DOMAIN d[1]

\* rank reads a column the dataset does not have: latitude and longitude for
\* a reference point (ranking.py line 114), rating_tempat (line 127),
\* user_ratings_total (line 130), store for an active filter (line 146)
MissingColumn(d, user_lat, user_lon, store_filter) ==
    \/ HasLocation(user_lat, user_lon)
       /\ ~({"latitude", "longitude"} \subseteq Columns(d))
    \/ "rating_tempat" \notin Columns(d)
    \/ "user_ratings_total" \notin Columns(d)
    \/ StoreFilterActive(store_filter) /\ "store" \notin Columns(d)

\* ranking.py line 101: the frame self.df once rank has added its columns to
\* result_df, which is a copy of it
SelfDfAfterColumnsNoCopy(d, scored) == scored

SelfDfAfterColumns(d, scored) == d

\* self.df after rank(query, user_lat, user_lon, ...)
df_after_rank(self, query, user_lat, user_lon, store_filter) ==
    IF NotFitted(self) \/ self.df = None THEN self.df
    ELSE LET bm25_scores == get_all_scores(self.bm25, preprocess_query(query))
         IN  IF \/ bm25_scores.exc # ""
                \/ Len(bm25_scores.value) # Len(self.df[1])
                \/ MissingColumn(self.df[1], user_lat, user_lon, store_filter)
             THEN self.df
             ELSE Some(SelfDfAfterColumns(
                          self.df[1],
                          ScoredRows(self.df[1], bm25_scores.value, user_lat, user_lon)))

\* the set of results rank may return (one per outcome of the sort)
rank(self, query, user_lat, user_lon, store_filter, top_k, require_text_match) ==
    IF NotFitted(self) THEN {Return(DataFrame(FALSE, <<>>))}
    ELSE IF self.df = None THEN {Raise("AttributeError")}
    ELSE LET query_tokens == preprocess_query(query)
             bm25_scores == get_all_scores(self.bm25, query_tokens)
         IN  IF bm25_scores.exc # "" THEN {Raise(bm25_scores.exc)}
             ELSE IF Len(bm25_scores.value) # Len(self.df[1]) THEN {Raise("ValueError")}
             ELSE IF MissingColumn(self.df[1], user_lat, user_lon, store_filter)
             THEN {Raise("KeyError")}
             ELSE LET scored == ScoredRows(self.df[1], bm25_scores.value, user_lat, user_lon)
                      kept == apply_text_match(apply_store_filter(scored, store_filter),
                                               require_text_match)
                  IN  {Return(DataFrame(TRUE, add_rank(head(sorted, top_k)))) :
                          sorted \in sort_values(kept)}

\* ranking.py line 229: the record fails rule 1
Rule1FailsBelowOnly(bm25_score, bm25_threshold) == bm25_score < bm25_threshold

Rule1Fails(bm25_score, bm25_threshold) == bm25_score <= bm25_threshold

\* ranking.py line 249: at least 2 of the 3 criteria
EnoughCriteriaAllThree(relevance_score) == relevance_score >= 3

EnoughCriteria(relevance_score) == ~(relevance_score < 2)

\* ranking.py line 255: half of max_distance (km), as a distance
StrictMaxDistanceWhole(max_distance) == max_distance * Scale

StrictMaxDistance(max_distance) == (max_distance * Scale) \div 2

\* x >= y of two floats, either of which may be NaN
GreaterEqual(x, y) == x # None /\ y # None /\ x[1] >= y[1]

\* ranking.py lines 261-264: rule 3 rejects the record
StoreTypeVetoOneMention(mentions_alfamart, mentions_indomaret, store_type) ==
    \/ mentions_alfamart /\ ~mentions_indomaret /\ ~Contains(store_type, "alfamart")
    \/ mentions_indomaret /\ ~mentions_alfamart /\ ~Contains(store_type, "indomaret")

StoreTypeVeto(mentions_alfamart, mentions_indomaret, store_type) ==
    \/ mentions_alfamart /\ ~Contains(store_type, "alfamart")
    \/ mentions_indomaret /\ ~Contains(store_type, "indomaret")

\* the label of one row (ranking.py lines 224-266)
\* t: the values determine_relevance computes before its loop
is_relevant(row, t) ==
    LET has_query == t.has_query
        has_location == t.has_location
        mentions_alfamart == t.mentions_alfamart
        mentions_indomaret == t.mentions_indomaret
        bm25_threshold == t.bm25_threshold
        final_score_threshold == t.final_score_threshold
        popularity_threshold == t.popularity_threshold
        max_distance == t.max_distance
        min_rating == 4 * Scale
        criteria ==
            (IF row.final_score >= final_score_threshold THEN 1 ELSE 0)
            + (IF GreaterEqual(row.rating_tempat, Some(min_rating)) THEN 1 ELSE 0)
            + (IF row.user_ratings_total # None
                  /\ row.user_ratings_total[1] * Scale >= popularity_threshold
               THEN 1 ELSE 0)
        primary ==
            IF has_query THEN ~Rule1Fails(row.bm25_score, bm25_threshold)
            ELSE EnoughCriteria(criteria)
        strict_max_distance == StrictMaxDistance(max_distance)
        store_type == lower(DictGet(row, "store", ""))
    IN  /\ primary
        /\ ~(has_location /\ row.distance_km > strict_max_distance)
        /\ ~StoreTypeVeto(mentions_alfamart, mentions_indomaret, store_type)

\* max_distance: None or the km given
determine_relevance(result_df, query, user_lat, user_lon, max_distance) ==
    IF ~result_df.columns THEN Raise("KeyError")
    ELSE
    LET rows == result_df.rows
        max_dist == IF max_distance = None THEN MAX_DISTANCE_KM ELSE max_distance[1]
        query_lower == lower(query)
        has_query == query # "" /\ strip(query) # ""
        has_location == user_lat # None /\ user_lon # None
        mentions_alfamart ==
            Contains(query_lower, "alfamart") \/ Contains(query_lower, "alfa")
        mentions_indomaret ==
            Contains(query_lower, "indomaret") \/ Contains(query_lower, "indo")
        bm25_scores == [i \in DOMAIN rows |-> rows[i].bm25_score]
        bm25_threshold ==
            IF bm25_scores # <<>> /\ has_query THEN np_median(bm25_scores) ELSE 0
        final_scores == [i \in DOMAIN rows |-> rows[i].final_score]
        final_score_threshold ==
            IF final_scores # <<>> THEN np_percentile_75(final_scores) ELSE 0
        popularity_values ==
            [i \in DOMAIN rows |-> fillna(rows[i].user_ratings_total, 0) * Scale]
        popularity_threshold ==
            IF popularity_values # <<>> THEN np_median(popularity_values) ELSE 0
    IN  Return([i \in DOMAIN rows |->
                   is_relevant(rows[i],
                       [has_query |-> has_query,
                        has_location |-> has_location,
                        mentions_alfamart |-> mentions_alfamart,
                        mentions_indomaret |-> mentions_indomaret,
                        bm25_threshold |-> bm25_threshold,
                        final_score_threshold |-> final_score_threshold,
                        popularity_threshold |-> popularity_threshold,
                        max_distance |-> max_dist])])

-----------------------------------------------------------------------------
(* core/evaluation.py.  The list relevance is the sequence labels of BOOLEAN. *)

DEFAULT_K == 10

\* Evaluator.__init__(k): k is None or Some(n)
Evaluator_init(k) == [k |-> IF k # None THEN k[1] ELSE DEFAULT_K]

\* sum(1 for r in relevance if r)
CountTrue(labels) == Cardinality({i \in DOMAIN labels : labels[i]})

\* evaluation.py line 65: the divisor of Precision@K
PrecisionDivisorAvailable(k, top_k_relevance) == Len(top_k_relevance)

PrecisionDivisor(k, top_k_relevance) == k

precision_at_k(self, labels, k) ==
    LET k0 == IF k = None THEN self.k ELSE k[1]
    IN  IF k0 <= 0 \/ Len(labels) = 0 THEN 0
        ELSE LET top_k_relevance == SliceTo(labels, k0)
                 relevant_count == CountTrue(top_k_relevance)
             IN  TrueDiv(relevant_count, PrecisionDivisor(k0, top_k_relevance))

\* evaluation.py line 91: the divisor of Recall@K
TotalRelevantInTopK(labels, k) == CountTrue(SliceTo(labels, k))

TotalRelevant(labels, k) == CountTrue(labels)

recall_at_k(self, labels, k) ==
    LET k0 == IF k = None THEN self.k ELSE k[1]
    IN  IF k0 <= 0 \/ Len(labels) = 0 THEN 0
        ELSE LET total_relevant == TotalRelevant(labels, k0)
             IN  IF total_relevant = 0 THEN 0
                 ELSE LET top_k_relevance == SliceTo(labels, k0)
                          relevant_in_top_k == CountTrue(top_k_relevance)
                      IN  TrueDiv(relevant_in_top_k, total_relevant)

\* evaluation.py lines 129-134: the loop over enumerate(relevance) from the
\* 0-based position i on
RECURSIVE AveragePrecisionLoop(_, _, _, _)
AveragePrecisionLoop(labels, i, relevant_count, ap_sum) ==
    IF i >= Len(labels) THEN ap_sum
    ELSE IF labels[i + 1]
         THEN AveragePrecisionLoop(labels, i + 1, relevant_count + 1,
                                   ap_sum + TrueDiv(relevant_count + 1, i + 1))
         ELSE AveragePrecisionLoop(labels, i + 1, relevant_count, ap_sum)

\* evaluation.py line 136: the divisor of the average precision
AveragePrecisionDivisorLength(total_relevant, labels) == Len(labels)

AveragePrecisionDivisor(total_relevant, labels) == total_relevant

average_precision(self, labels) ==
    IF labels = <<>> THEN 0
    ELSE LET total_relevant == CountTrue(labels)
         IN  IF total_relevant = 0 THEN 0
             ELSE AveragePrecisionLoop(labels, 0, 0, 0)
                  \div AveragePrecisionDivisor(total_relevant, labels)

\* Evaluator.evaluate(relevance, k): k is None or Some(n)
evaluate(self, labels, k) ==
    LET k0 == IF k = None THEN self.k ELSE k[1]
    IN  [precision_k |-> precision_at_k(self, labels, Some(k0)),
         recall_k |-> recall_at_k(self, labels, Some(k0)),
         average_precision |-> average_precision(self, labels),
         k |-> k0]

\* round(num / den, 4) of two integers, den > 0
round4(num, den) == (2 * num * Scale + den) \div (2 * den)

\* ComponentEvaluator.__init__(k): k is None or Some(n)
ComponentEvaluator_init(k) ==
    LET k0 == IF k # None THEN k[1] ELSE DEFAULT_K
    IN  [k |-> k0, evaluator |-> Evaluator_init(Some(k0))]

\* scores[scores > 0]
Positive(scores) == SelectSeq(scores, LAMBDA x : x > 0)

\* evaluation.py line 269: the scores whose median is the threshold
MedianBaseAll(scores) == scores

MedianBase(scores) == Positive(scores)

\* evaluation.py lines 268-270: bm25_relevance
bm25_relevance(bm25_scores) ==
    LET nonzero_scores == Positive(bm25_scores)
        median_score == IF Len(nonzero_scores) > 0
                        THEN np_median(MedianBase(bm25_scores))
                        ELSE 0
    IN  [i \in DOMAIN bm25_scores |-> bm25_scores[i] > median_score]

ZeroBm25Report ==
    [avg_score |-> 0, max_score |-> 0, min_score |-> 0, score_std |-> 0,
     nonzero_count |-> 0, nonzero_rate |-> 0, term_match_rate |-> 0,
     bm25_precision |-> 0, bm25_recall |-> 0]

\* np.std(scores): the square root of the mean squared deviation from the
\* mean, the scores taken to the thousandth so that the squares stay in range
np_std(scores) ==
    LET n == Len(scores)
        x == [i \in DOMAIN scores |-> scores[i] \div 10]
        sum == SumSeq(x)
        squares == SumSeq([i \in DOMAIN x |-> x[i] * x[i]])
    IN  (sqrt(n * squares - sum * sum) * 10) \div n

\* evaluate_bm25(bm25_scores, relevance, query_match_stats): query_match_stats
\* is None or Some(dict); the argument relevance is not read
evaluate_bm25(self, bm25_scores, labels, query_match_stats) ==
    IF Len(bm25_scores) = 0 THEN ZeroBm25Report
    ELSE
    LET nonzero_scores == Positive(bm25_scores)
        relevant == bm25_relevance(bm25_scores)
        k == Min(self.k, Len(bm25_scores))
        in_top_k == CountTrue(SliceTo(relevant, k))
        total_bm25_relevant == CountTrue(relevant)
        result ==
            [avg_score |-> round4(SumSeq(bm25_scores), Len(bm25_scores) * Scale),
             max_score |-> MaxSeq(bm25_scores),
             min_score |-> MinSeq(bm25_scores),
             score_std |-> np_std(bm25_scores),
             nonzero_count |-> Len(nonzero_scores),
             nonzero_rate |-> round4(Len(nonzero_scores), Len(bm25_scores)),
             bm25_precision |-> IF k > 0 THEN round4(in_top_k, k) ELSE 0,
             bm25_recall |-> IF total_bm25_relevant > 0
                             THEN round4(in_top_k, total_bm25_relevant)
                             ELSE 0]
    IN  IF query_match_stats # None /\ DOMAIN query_match_stats[1] # {}
        THEN LET stats == query_match_stats[1]
             IN  [term_match_rate |-> DictGet(stats, "term_match_rate", 0),
                  matched_terms |-> DictGet(stats, "matched_terms", 0),
                  query_terms |-> DictGet(stats, "query_terms", 0),
                  avg_idf |-> DictGet(stats, "avg_idf", 0)] @@ result
        ELSE result

ZeroDistanceReport ==
    [avg_distance |-> 0, min_distance |-> 0, max_distance |-> 0,
     median_distance |-> 0, within_1km |-> 0, within_5km |-> 0,
     within_10km |-> 0, distance_precision |-> 0, spatial_efficiency |-> 0]

\* the names core/geo_utils.py binds at module level
geo_utils_names ==
    {"math", "Tuple", "sys", "os", "MAX_DISTANCE_KM", "EARTH_RADIUS_KM",
     "haversine_distance", "calculate_distance_score",
     "calculate_distance_score_exponential", "get_bounding_box",
     "is_within_bounding_box", "format_distance"}

MAX_RELEVANT_DISTANCE == 5

\* evaluation.py lines 334-341: distance_precision; a distance is None or
\* Some(d), max_relevant_distance in km
distance_precision(self, distances, max_relevant_distance) ==
    LET k == Min(self.k, Len(distances))
        valid_distances ==
            SelectSeq(SliceTo(distances, k), LAMBDA d : d # None /\ d[1] >= 0)
        within == SelectSeq(valid_distances,
                            LAMBDA d : d[1] <= max_relevant_distance * Scale)
    IN  IF Len(valid_distances) > 0
        THEN round4(Len(within), Len(valid_distances))
        ELSE 0

\* evaluate_distance(distances, relevance, max_relevant_distance): the import
\* of line 328 raises, core/geo_utils.py binding no get_distance_statistics,
\* so that lines 331-352 are not reached
evaluate_distance(self, distances, labels, max_relevant_distance) ==
    IF Len(distances) = 0 THEN Return(ZeroDistanceReport)
    ELSE IF "get_distance_statistics" \notin geo_utils_names
         THEN Raise("ImportError")
         ELSE Return([distance_precision |->
                          distance_precision(self, distances, max_relevant_distance)])

\* evaluate_components(result_df, query_tokens, bm25_engine): result_df is a
\* frame [rows, columns], columns telling whether it has its columns (the
\* frame pd.DataFrame() has none); query_tokens and bm25_engine are None or
\* Some(value)
evaluate_components(self, result_df, query_tokens, bm25_engine) ==
    LET rows == result_df.rows
        bm25_scores == IF result_df.columns
                       THEN [i \in DOMAIN rows |-> rows[i].bm25_score]
                       ELSE <<>>
        distances == IF result_df.columns
                     THEN [i \in DOMAIN rows |-> Some(rows[i].distance_km)]
                     ELSE <<>>
        labels == [i \in DOMAIN rows |-> TRUE]
        query_match_stats ==
            IF bm25_engine # None /\ query_tokens # None /\ Len(query_tokens[1]) > 0
            THEN Some(get_query_match_stats(bm25_engine[1], query_tokens[1]))
            ELSE None
        bm25_eval == evaluate_bm25(self, bm25_scores, labels, query_match_stats)
        distance_eval == evaluate_distance(self, distances, labels, MAX_RELEVANT_DISTANCE)
    IN  IF distance_eval.exc # "" THEN Raise(distance_eval.exc)
        ELSE Return([bm25 |-> bm25_eval, distance |-> distance_eval.value])

-----------------------------------------------------------------------------
(* A client of one BM25Engine: it fits corpora and asks for scores, one call
   at a time; the value a call returned stays with the client until dropped *)

EngineDocs ==
    { <<>>,
      <<"indomaret">>,
      <<"indomaret", "cilandak">>,
      <<"alfamart", "ragunan">>,
      <<"cilandak", "cilandak", "alfamart">> }

QueryTerms == {"indomaret", "cilandak", "pasar"}

SeqsUpTo(S, n) == UNION {[1..k -> S] : k \in 0..n}

Corpora == SeqsUpTo(EngineDocs, MaxDocs)

TokenQueries == SeqsUpTo(QueryTerms, MaxQueryLen)

DocIndices == (-(MaxDocs + 1))..(MaxDocs + 1)

EngineTopKs == (-1)..(MaxDocs + 1)

NoCall == [op |-> "none", query |-> <<>>, doc_idx |-> 0, top_k |-> 0, res |-> Return(0)]

EngineFit(c) ==
    /\ ret.op = "none"
    /\ engine' = BM25Engine_fit(engine, c)
    /\ UNCHANGED <<ret, df, corpus, bm25, results, relevance, evaluator, metrics, geo, component_evaluator, report, writer, reader>>

EngineScore(q, i) ==
    /\ ret.op = "none"
    /\ ret' = [op |-> "score", query |-> q, doc_idx |-> i, top_k |-> 0,
               res |-> BM25Engine_score(engine, q, i)]
    /\ UNCHANGED <<engine, df, corpus, bm25, results, relevance, evaluator, metrics, geo, component_evaluator, report, writer, reader>>

EngineGetAllScores(q) ==
    /\ ret.op = "none"
    /\ ret' = [op |-> "get_all_scores", query |-> q, doc_idx |-> 0, top_k |-> 0,
               res |-> get_all_scores(engine, q)]
    /\ UNCHANGED <<engine, df, corpus, bm25, results, relevance, evaluator, metrics, geo, component_evaluator, report, writer, reader>>

EngineSearch(q, k) ==
    /\ ret.op = "none"
    /\ ret' = [op |-> "search", query |-> q, doc_idx |-> 0, top_k |-> k,
               res |-> BM25Engine_search(engine, q, k)]
    /\ UNCHANGED <<engine, df, corpus, bm25, results, relevance, evaluator, metrics, geo, component_evaluator, report, writer, reader>>

EngineGetQueryMatchStats(q) ==
    /\ ret.op = "none"
    /\ ret' = [op |-> "get_query_match_stats", query |-> q, doc_idx |-> 0, top_k |-> 0,
               res |-> Return(get_query_match_stats(engine, q))]
    /\ UNCHANGED <<engine, df, corpus, bm25, results, relevance, evaluator, metrics, geo, component_evaluator, report, writer, reader>>

EngineDrop ==
    /\ ret.op # "none"
    /\ ret' = NoCall
    /\ UNCHANGED <<engine, df, corpus, bm25, results, relevance, evaluator, metrics, geo, component_evaluator, report, writer, reader>>

-----------------------------------------------------------------------------
(* A session of the application (app.py, main): it fits a HeuristicRanker
   with a dataset, ranks one search at a time, labels the result and renders
   it; the result of a search is gone when the next one starts *)

Row(nama, alamat, kelurahan, kecamatan, store, rating, popularity, lat, lon) ==
    [nama_tempat |-> nama, alamat_tempat |-> alamat, nama_kelurahan |-> kelurahan,
     nama_kecamatan |-> kecamatan, store |-> store, rating_tempat |-> rating,
     user_ratings_total |-> popularity, latitude |-> lat, longitude |-> lon]

\* the records a dataset is made of: a rated, popular shop at the reference
\* point, an unrated one 7 km away and a poorly rated one 13.5 km away
RowCatalogue ==
    { Row("Alfamart Cipete", "Jl. Raya No.5", "Cipete", "Cilandak", "Alfamart",
          Some(45000), Some(100), -6280, 106800),
      Row("Indomaret Cipete", "Jl. Cipete", "Cipete", "Cilandak", "Indomaret",
          None, None, -6217, 106800),
      Row("Indomaret Ragunan", "Jl. Kebun", "Ragunan", "Pasar Minggu", "Indomaret",
          Some(30000), Some(10), -6350, 106900) }

Datasets == SeqsUpTo(RowCatalogue, MaxRows)

TextQueries ==
    {"", "Cipete", "alfamart cipete", "di", "indonesia cipete", "indomaret alfamart"}

UserLats == {None, Some(-6280)}

UserLons == {None, Some(106800)}

StoreFilters == {None, Some(""), Some("Semua"), Some("Alfamart")}

TopKs == 0..MaxRows

\* the token lists asked of ranker.bm25 directly
RankerQueries == {<<>>, <<"cipete">>, <<"alfamart", "pasar">>}

NoSearch ==
    [op |-> "none", query |-> "", user_lat |-> None, user_lon |-> None,
     store_filter |-> None, top_k |-> 0, require_text_match |-> FALSE,
     res |-> Return(DataFrame(FALSE, <<>>))]

NoLabels == [op |-> "none", user_lat |-> None, user_lon |-> None, res |-> Return(<<>>)]

NoMetrics == [op |-> "none", relevance |-> <<>>, k |-> None, res |-> 0]

ranker == [df |-> df, corpus |-> corpus, bm25 |-> bm25]

Fit(d) ==
    /\ results.op = "none"
    /\ ret.op = "none"
    /\ LET fitted == HeuristicRanker_fit(ranker, d)
       IN  /\ df' = fitted.df
           /\ corpus' = fitted.corpus
           /\ bm25' = fitted.bm25
    /\ UNCHANGED <<engine, ret, results, relevance, evaluator, metrics, geo, component_evaluator, report, writer, reader>>

Rank(query, user_lat, user_lon, store_filter, top_k, require_text_match) ==
    /\ results.op = "none"
    /\ ret.op = "none"
    /\ \E r \in rank(ranker, query, user_lat, user_lon, store_filter, top_k,
                     require_text_match) :
           results' = [op |-> "rank", query |-> query, user_lat |-> user_lat,
                       user_lon |-> user_lon, store_filter |-> store_filter,
                       top_k |-> top_k, require_text_match |-> require_text_match,
                       res |-> r]
    /\ df' = df_after_rank(ranker, query, user_lat, user_lon, store_filter)
    /\ UNCHANGED <<engine, ret, corpus, bm25, relevance, evaluator, metrics, geo, component_evaluator, report, writer, reader>>

\* the labels of the result just ranked, asked for with the reference point
\* of the search (app.py lines 128-130) or with none (the defaults of
\* user_lat and user_lon, ranking.py line 164)
DetermineRelevance(located) ==
    /\ results.op = "rank" /\ results.res.exc = ""
    /\ relevance.op = "none"
    /\ LET user_lat == IF located THEN results.user_lat ELSE None
           user_lon == IF located THEN results.user_lon ELSE None
           labels == determine_relevance(results.res.value, results.query,
                                         user_lat, user_lon, None)
           n == Len(results.res.value.rows)
       IN  /\ relevance' = [op |-> "determine_relevance",
                            user_lat |-> user_lat, user_lon |-> user_lon,
                            res |-> labels]
           \* app.py lines 124-134: the labels of a result that has rows are
           \* evaluated by Evaluator(k=DEFAULT_K) with k = min(DEFAULT_K, n)
           /\ metrics' = IF n > 0 /\ labels.exc = ""
                         THEN [op |-> "evaluate", relevance |-> labels.value,
                               k |-> Some(Min(DEFAULT_K, n)),
                               res |-> evaluate(Evaluator_init(Some(DEFAULT_K)),
                                                labels.value,
                                                Some(Min(DEFAULT_K, n)))]
                         ELSE NoMetrics
    /\ UNCHANGED <<engine, ret, df, corpus, bm25, results, evaluator, geo, component_evaluator, report, writer, reader>>

\* a call of a method of ranker.bm25 between two searches (app.py line 148
\* hands ranker.bm25 to the component evaluation)
Bm25Score(q, i) ==
    /\ results.op = "none"
    /\ ret.op = "none"
    /\ ret' = [op |-> "score", query |-> q, doc_idx |-> i, top_k |-> 0,
               res |-> BM25Engine_score(bm25, q, i)]
    /\ UNCHANGED <<engine, df, corpus, bm25, results, relevance, evaluator, metrics, geo, component_evaluator, report, writer, reader>>

Bm25GetAllScores(q) ==
    /\ results.op = "none"
    /\ ret.op = "none"
    /\ ret' = [op |-> "get_all_scores", query |-> q, doc_idx |-> 0, top_k |-> 0,
               res |-> get_all_scores(bm25, q)]
    /\ UNCHANGED <<engine, df, corpus, bm25, results, relevance, evaluator, metrics, geo, component_evaluator, report, writer, reader>>

Bm25Search(q, k) ==
    /\ results.op = "none"
    /\ ret.op = "none"
    /\ ret' = [op |-> "search", query |-> q, doc_idx |-> 0, top_k |-> k,
               res |-> BM25Engine_search(bm25, q, k)]
    /\ UNCHANGED <<engine, df, corpus, bm25, results, relevance, evaluator, metrics, geo, component_evaluator, report, writer, reader>>

Bm25GetQueryMatchStats(q) ==
    /\ results.op = "none"
    /\ ret.op = "none"
    /\ ret' = [op |-> "get_query_match_stats", query |-> q, doc_idx |-> 0, top_k |-> 0,
               res |-> Return(get_query_match_stats(bm25, q))]
    /\ UNCHANGED <<engine, df, corpus, bm25, results, relevance, evaluator, metrics, geo, component_evaluator, report, writer, reader>>

\* the end of main: results, relevance and metrics go out of scope
Discard ==
    /\ results.op # "none"
    /\ results' = NoSearch
    /\ relevance' = NoLabels
    /\ metrics' = NoMetrics
    /\ UNCHANGED <<engine, ret, df, corpus, bm25, evaluator, geo, component_evaluator, report, writer, reader>>

\* the label lists, the k arguments (None: the evaluator's own k) and the
\* constructor arguments of the evaluator's client
LabelLists == SeqsUpTo(BOOLEAN, MaxLabels)

EvalKs == {None} \cup {Some(k) : k \in (-1)..(MaxLabels + 1)}

EvaluatorKs == {None, Some(3)}

\* distances offered to calculate_distance_score: every half kilometre up to
\* MaxKm, in units of 1/Scale km
Distances == {d * (Scale \div 2) : d \in 0..(2 * MaxKm)}

MaxDistances == {None, Some(0), Some(1), Some(5), Some(MAX_DISTANCE_KM)}

NoScore == [op |-> "none", distance |-> 0, max_distance |-> None, res |-> Return(0)]

ComponentKs == {None, Some(1), Some(2)}

ScoreLists == SeqsUpTo({0, Scale, 2 * Scale, 3 * Scale}, MaxReported)

DistanceLists == SeqsUpTo({None, Some(0), Some(3 * Scale), Some(7 * Scale)}, MaxReported)

FrameRows == [bm25_score : {0, Scale}, distance_km : {0, 7 * Scale}]

ResultFrames ==
    {[rows |-> <<>>, columns |-> FALSE]}
    \cup {[rows |-> r, columns |-> TRUE] : r \in SeqsUpTo(FrameRows, MaxFrameRows)}

NoReport == [op |-> "none", input |-> <<>>, res |-> Return(0)]

\* the corpora, token lists and document indices of the two threads that
\* share one BM25Engine
SharedCorpora ==
    { <<>>,
      <<(<<"indomaret">>)>>,
      <<(<<"indomaret", "cilandak">>), <<"cilandak">> >> }

SharedQueries == {<<"cilandak">>, <<"indomaret", "cilandak">>}

SharedDocIndices == {0, 1}

\* a thread that is in no call: the locals of fit, those of score and
\* get_all_scores
NoFit ==
    [pc |-> "idle", corpus |-> <<>>, before |-> BM25Engine_init, i |-> 0,
     terms |-> {}, order |-> <<>>, k |-> 0]

NoRead ==
    [pc |-> "idle", op |-> "none", query |-> <<>>, doc_idx |-> 0, range_n |-> 0,
     all |-> <<>>, n |-> 0, seen_len |-> 0, doc_len |-> 0, term_freqs |-> EmptyDict,
     i |-> 0, acc |-> 0, idf |-> 0, res |-> Return(0)]

Init ==
    /\ engine = BM25Engine_init
    /\ ret = NoCall
    /\ df = HeuristicRanker_init.df
    /\ corpus = HeuristicRanker_init.corpus
    /\ bm25 = HeuristicRanker_init.bm25
    /\ results = NoSearch
    /\ relevance = NoLabels
    /\ evaluator = Evaluator_init(None)
    /\ metrics = NoMetrics
    /\ geo = NoScore
    /\ component_evaluator = ComponentEvaluator_init(None)
    /\ report = NoReport
    /\ writer = NoFit
    /\ reader = NoRead

Next ==
    \/ \E d \in Datasets : Fit(d)
    \/ \E query \in TextQueries, user_lat \in UserLats, user_lon \in UserLons,
          store_filter \in StoreFilters, top_k \in TopKs,
          require_text_match \in BOOLEAN :
            Rank(query, user_lat, user_lon, store_filter, top_k, require_text_match)
    \/ \E located \in BOOLEAN : DetermineRelevance(located)
    \/ Discard
    \/ \E q \in RankerQueries, i \in 0..MaxRows : Bm25Score(q, i)
    \/ \E q \in RankerQueries : Bm25GetAllScores(q)
    \/ \E q \in RankerQueries, k \in {1, MaxRows} : Bm25Search(q, k)
    \/ \E q \in RankerQueries : Bm25GetQueryMatchStats(q)
    \/ EngineDrop

Spec == Init /\ [][Next]_vars

\* the columns rank reads by name (ranking.py lines 114, 127, 130 and 146)
RequiredColumns ==
    {"rating_tempat", "user_ratings_total", "latitude", "longitude", "store"}

\* a row without the column name
Without(row, name) == [c \in DOMAIN row \ {name} |-> row[c]]

\* the datasets of one record that lack one of the columns rank reads
DefectiveDatasets ==
    {<<Without(row, name)>> : row \in RowCatalogue, name \in RequiredColumns}

\* sessions on a dataset with a column missing
NextDefective ==
    \/ \E d \in DefectiveDatasets : Fit(d)
    \/ \E query \in TextQueries, user_lat \in UserLats, user_lon \in UserLons,
          store_filter \in StoreFilters, top_k \in TopKs,
          require_text_match \in BOOLEAN :
            Rank(query, user_lat, user_lon, store_filter, top_k, require_text_match)
    \/ Discard

SpecDefective == Init /\ [][NextDefective]_vars

NextEngine ==
    \/ \E c \in Corpora : EngineFit(c)
    \/ \E q \in TokenQueries, i \in DocIndices : EngineScore(q, i)
    \/ \E q \in TokenQueries : EngineGetAllScores(q)
    \/ \E q \in TokenQueries, k \in EngineTopKs : EngineSearch(q, k)
    \/ \E q \in TokenQueries : EngineGetQueryMatchStats(q)
    \/ EngineDrop

SpecEngine == Init /\ [][NextEngine]_vars

-----------------------------------------------------------------------------
(* A client of one Evaluator: it constructs the evaluator and asks for one
   metric at a time *)

NewEvaluator(k) ==
    /\ metrics.op = "none"
    /\ evaluator' = Evaluator_init(k)
    /\ UNCHANGED <<engine, ret, df, corpus, bm25, results, relevance, metrics, geo, component_evaluator, report, writer, reader>>

PrecisionAtK(labels, k) ==
    /\ metrics.op = "none"
    /\ metrics' = [op |-> "precision_at_k", relevance |-> labels, k |-> k,
                   res |-> precision_at_k(evaluator, labels, k)]
    /\ UNCHANGED <<engine, ret, df, corpus, bm25, results, relevance, evaluator, geo, component_evaluator, report, writer, reader>>

RecallAtK(labels, k) ==
    /\ metrics.op = "none"
    /\ metrics' = [op |-> "recall_at_k", relevance |-> labels, k |-> k,
                   res |-> recall_at_k(evaluator, labels, k)]
    /\ UNCHANGED <<engine, ret, df, corpus, bm25, results, relevance, evaluator, geo, component_evaluator, report, writer, reader>>

AveragePrecision(labels) ==
    /\ metrics.op = "none"
    /\ metrics' = [op |-> "average_precision", relevance |-> labels, k |-> None,
                   res |-> average_precision(evaluator, labels)]
    /\ UNCHANGED <<engine, ret, df, corpus, bm25, results, relevance, evaluator, geo, component_evaluator, report, writer, reader>>

MetricsDrop ==
    /\ metrics.op # "none"
    /\ metrics' = NoMetrics
    /\ UNCHANGED <<engine, ret, df, corpus, bm25, results, relevance, evaluator, geo, component_evaluator, report, writer, reader>>

NextEvaluator ==
    \/ \E k \in EvaluatorKs : NewEvaluator(k)
    \/ \E labels \in LabelLists, k \in EvalKs : PrecisionAtK(labels, k)
    \/ \E labels \in LabelLists, k \in EvalKs : RecallAtK(labels, k)
    \/ \E labels \in LabelLists : AveragePrecision(labels)
    \/ MetricsDrop

SpecEvaluator == Init /\ [][NextEvaluator]_vars

-----------------------------------------------------------------------------
(* A caller of core/geo_utils.py: one call of calculate_distance_score at a
   time *)

DistanceScore(distance, max_distance) ==
    /\ geo.op = "none"
    /\ geo' = [op |-> "calculate_distance_score", distance |-> distance,
               max_distance |-> max_distance,
               res |-> calculate_distance_score(distance, max_distance)]
    /\ UNCHANGED <<engine, ret, df, corpus, bm25, results, relevance, evaluator, metrics, component_evaluator, report, writer, reader>>

ScoreDrop ==
    /\ geo.op # "none"
    /\ geo' = NoScore
    /\ UNCHANGED <<engine, ret, df, corpus, bm25, results, relevance, evaluator, metrics, component_evaluator, report, writer, reader>>

NextGeo ==
    \/ \E distance \in Distances, max_distance \in MaxDistances :
          DistanceScore(distance, max_distance)
    \/ ScoreDrop

SpecGeo == Init /\ [][NextGeo]_vars

-----------------------------------------------------------------------------
(* A client of one ComponentEvaluator: it constructs the evaluator and asks
   for one report at a time *)

NewComponentEvaluator(k) ==
    /\ report.op = "none"
    /\ component_evaluator' = ComponentEvaluator_init(k)
    /\ UNCHANGED <<engine, ret, df, corpus, bm25, results, relevance, evaluator, metrics, geo, report, writer, reader>>

EvaluateBm25(bm25_scores) ==
    /\ report.op = "none"
    /\ report' = [op |-> "evaluate_bm25", input |-> bm25_scores,
                  res |-> Return(evaluate_bm25(component_evaluator, bm25_scores,
                                               [i \in DOMAIN bm25_scores |-> TRUE],
                                               None))]
    /\ UNCHANGED <<engine, ret, df, corpus, bm25, results, relevance, evaluator, metrics, geo, component_evaluator, writer, reader>>

EvaluateDistance(distances) ==
    /\ report.op = "none"
    /\ report' = [op |-> "evaluate_distance", input |-> distances,
                  res |-> evaluate_distance(component_evaluator, distances,
                                            [i \in DOMAIN distances |-> TRUE],
                                            MAX_RELEVANT_DISTANCE)]
    /\ UNCHANGED <<engine, ret, df, corpus, bm25, results, relevance, evaluator, metrics, geo, component_evaluator, writer, reader>>

EvaluateComponents(result_df) ==
    /\ report.op = "none"
    /\ report' = [op |-> "evaluate_components", input |-> result_df,
                  res |-> evaluate_components(component_evaluator, result_df,
                                              None, None)]
    /\ UNCHANGED <<engine, ret, df, corpus, bm25, results, relevance, evaluator, metrics, geo, component_evaluator, writer, reader>>

ReportDrop ==
    /\ report.op # "none"
    /\ report' = NoReport
    /\ UNCHANGED <<engine, ret, df, corpus, bm25, results, relevance, evaluator, metrics, geo, component_evaluator, writer, reader>>

NextComponent ==
    \/ \E k \in ComponentKs : NewComponentEvaluator(k)
    \/ \E bm25_scores \in ScoreLists : EvaluateBm25(bm25_scores)
    \/ \E distances \in DistanceLists : EvaluateDistance(distances)
    \/ \E result_df \in ResultFrames : EvaluateComponents(result_df)
    \/ ReportDrop

SpecComponent == Init /\ [][NextComponent]_vars

-----------------------------------------------------------------------------
(* Two threads on one BM25Engine (the variable engine): a writer that calls
   fit and a reader that calls score or get_all_scores.  A step is one
   assignment to a field of the instance, or one read of a field.  The writer
   keeps in before the instance as it was when fit was called. *)

FitCall(c) ==
    /\ writer.pc = "idle"
    /\ writer' = [NoFit EXCEPT !.pc = FitOrder[1], !.corpus = c, !.before = engine]
    /\ UNCHANGED <<ret, df, corpus, bm25, results, relevance, evaluator, metrics, geo, component_evaluator, report, engine, reader>>

\* bm25_engine.py lines 53-66
FitStatement ==
    /\ writer.pc \in Range(FitOrder)
    /\ IF writer.pc = "return_if_empty" /\ engine.N = 0
       THEN writer' = NoFit /\ engine' = engine
       ELSE /\ engine' = fit_assign(engine, writer.pc, writer.corpus)
            /\ writer' = [writer EXCEPT !.pc = StatementAfter(writer.pc), !.i = 1]
    /\ UNCHANGED <<ret, df, corpus, bm25, results, relevance, evaluator, metrics, geo, component_evaluator, report, reader>>

\* bm25_engine.py lines 69-72: the next document of the loop, or its end
FitAppend ==
    /\ writer.pc = "append"
    /\ IF writer.i > Len(writer.corpus)
       THEN writer' = [writer EXCEPT !.pc = "idf_reset"] /\ engine' = engine
       ELSE LET doc == writer.corpus[writer.i]
            IN  /\ engine' = [engine EXCEPT
                                 !.doc_term_freqs = Append(@, Counter(doc))]
                /\ writer' = [writer EXCEPT !.pc = "count", !.terms = Range(doc)]
    /\ UNCHANGED <<ret, df, corpus, bm25, results, relevance, evaluator, metrics, geo, component_evaluator, report, reader>>

\* bm25_engine.py lines 75-76: one term of set(doc), in the order the set
\* gives (any)
FitCount ==
    /\ writer.pc = "count"
    /\ IF writer.terms = {}
       THEN /\ writer' = [writer EXCEPT !.pc = "append", !.i = @ + 1]
            /\ engine' = engine
       ELSE \E term \in writer.terms :
              /\ engine' = [engine EXCEPT
                               !.doc_freqs = DictSet(@, term, DictGet(@, term, 0) + 1)]
              /\ writer' = [writer EXCEPT
                               !.terms = @ \ {term},
                               !.order = IF term \in Range(@) THEN @
                                         ELSE Append(@, term)]
    /\ UNCHANGED <<ret, df, corpus, bm25, results, relevance, evaluator, metrics, geo, component_evaluator, report, reader>>

\* bm25_engine.py line 87
FitIdfReset ==
    /\ writer.pc = "idf_reset"
    /\ engine' = [engine EXCEPT !.idf = EmptyDict]
    /\ writer' = [writer EXCEPT !.pc = "idf", !.k = 1]
    /\ UNCHANGED <<ret, df, corpus, bm25, results, relevance, evaluator, metrics, geo, component_evaluator, report, reader>>

\* bm25_engine.py lines 90-94: the next item of doc_freqs.items(), in
\* insertion order, or the end of the loop and of fit
FitIdf ==
    /\ writer.pc = "idf"
    /\ IF writer.k > Len(writer.order)
       THEN writer' = NoFit /\ engine' = engine
       ELSE LET term == writer.order[writer.k]
            IN  /\ engine' = [engine EXCEPT
                                 !.idf = DictSet(@, term,
                                                 IdfValue(engine.N, engine.doc_freqs[term]))]
                /\ writer' = [writer EXCEPT !.k = @ + 1]
    /\ UNCHANGED <<ret, df, corpus, bm25, results, relevance, evaluator, metrics, geo, component_evaluator, report, reader>>

ScoreCall(q, idx) ==
    /\ reader.pc = "idle"
    /\ reader' = [NoRead EXCEPT !.pc = "N", !.op = "score", !.query = q, !.doc_idx = idx]
    /\ UNCHANGED <<ret, df, corpus, bm25, results, relevance, evaluator, metrics, geo, component_evaluator, report, engine, writer>>

GetAllScoresCall(q) ==
    /\ reader.pc = "idle"
    /\ reader' = [NoRead EXCEPT !.pc = "range", !.op = "get_all_scores", !.query = q]
    /\ UNCHANGED <<ret, df, corpus, bm25, results, relevance, evaluator, metrics, geo, component_evaluator, report, engine, writer>>

\* bm25_engine.py line 159: range(self.N)
ReadRange ==
    /\ reader.pc = "range"
    /\ reader' = [reader EXCEPT !.pc = "next", !.range_n = engine.N, !.doc_idx = 0]
    /\ UNCHANGED <<ret, df, corpus, bm25, results, relevance, evaluator, metrics, geo, component_evaluator, report, engine, writer>>

\* bm25_engine.py line 159: the next idx of the range, or the list
NextIdx ==
    /\ reader.pc = "next"
    /\ reader' = IF reader.doc_idx >= reader.range_n
                 THEN [reader EXCEPT !.pc = "done", !.res = Return(reader.all)]
                 ELSE [reader EXCEPT !.pc = "N"]
    /\ UNCHANGED <<ret, df, corpus, bm25, results, relevance, evaluator, metrics, geo, component_evaluator, report, engine, writer>>

\* the reader once score has returned value: to the caller of score, or to
\* the list of get_all_scores
Returned(value) ==
    IF reader.op = "score"
    THEN [reader EXCEPT !.pc = "done", !.res = Return(value)]
    ELSE [reader EXCEPT !.pc = "next", !.all = Append(@, value), !.doc_idx = @ + 1]

Raised(e, len) == [reader EXCEPT !.pc = "done", !.res = Raise(e), !.seen_len = len]

\* bm25_engine.py line 103
ReadN ==
    /\ reader.pc = "N"
    /\ reader' = IF reader.doc_idx >= engine.N THEN Returned(0)
                 ELSE [reader EXCEPT !.pc = "doc_len", !.n = engine.N]
    /\ UNCHANGED <<ret, df, corpus, bm25, results, relevance, evaluator, metrics, geo, component_evaluator, report, engine, writer>>

\* bm25_engine.py line 107
ReadDocLength ==
    /\ reader.pc = "doc_len"
    /\ reader' = IF ~IndexInRange(engine.doc_lengths, reader.doc_idx)
                 THEN Raised("IndexError", Len(engine.doc_lengths))
                 ELSE [reader EXCEPT
                         !.pc = "term_freqs",
                         !.doc_len = ListGet(engine.doc_lengths, reader.doc_idx)]
    /\ UNCHANGED <<ret, df, corpus, bm25, results, relevance, evaluator, metrics, geo, component_evaluator, report, engine, writer>>

\* bm25_engine.py line 108
ReadTermFreqs ==
    /\ reader.pc = "term_freqs"
    /\ reader' = IF ~IndexInRange(engine.doc_term_freqs, reader.doc_idx)
                 THEN Raised("IndexError", Len(engine.doc_term_freqs))
                 ELSE [reader EXCEPT
                         !.pc = "term", !.i = 1, !.acc = 0,
                         !.term_freqs = ListGet(engine.doc_term_freqs, reader.doc_idx)]
    /\ UNCHANGED <<ret, df, corpus, bm25, results, relevance, evaluator, metrics, geo, component_evaluator, report, engine, writer>>

\* bm25_engine.py lines 111-121: the next term of the query, up to the read
\* of its idf
ReadTerm ==
    /\ reader.pc = "term"
    /\ reader' =
          IF reader.i > Len(reader.query) THEN Returned(reader.acc)
          ELSE LET term == reader.query[reader.i]
               IN  IF term \notin DOMAIN engine.idf
                   THEN [reader EXCEPT !.i = @ + 1]
                   ELSE IF DictGet(reader.term_freqs, term, 0) = 0
                   THEN [reader EXCEPT !.i = @ + 1]
                   ELSE [reader EXCEPT !.pc = "idf"]
    /\ UNCHANGED <<ret, df, corpus, bm25, results, relevance, evaluator, metrics, geo, component_evaluator, report, engine, writer>>

\* bm25_engine.py line 123
ReadIdf ==
    /\ reader.pc = "idf"
    /\ LET term == reader.query[reader.i]
       IN  reader' = IF term \notin DOMAIN engine.idf
                     THEN Raised("KeyError", 0)
                     ELSE [reader EXCEPT !.pc = "avgdl", !.idf = engine.idf[term]]
    /\ UNCHANGED <<ret, df, corpus, bm25, results, relevance, evaluator, metrics, geo, component_evaluator, report, engine, writer>>

\* bm25_engine.py lines 126-132
ReadAvgdl ==
    /\ reader.pc = "avgdl"
    /\ LET term == reader.query[reader.i]
       IN  reader' =
             IF engine.avgdl = 0 THEN Raised("ZeroDivisionError", 0)
             ELSE [reader EXCEPT
                     !.pc = "term", !.i = @ + 1,
                     !.acc = @ + term_score(engine.k1, engine.b, reader.idf,
                                            reader.term_freqs[term],
                                            reader.doc_len, engine.avgdl)]
    /\ UNCHANGED <<ret, df, corpus, bm25, results, relevance, evaluator, metrics, geo, component_evaluator, report, engine, writer>>

ReadReturn ==
    /\ reader.pc = "done"
    /\ reader' = NoRead
    /\ UNCHANGED <<ret, df, corpus, bm25, results, relevance, evaluator, metrics, geo, component_evaluator, report, engine, writer>>

NextShared ==
    \/ \E c \in SharedCorpora : FitCall(c)
    \/ FitStatement
    \/ FitAppend
    \/ FitCount
    \/ FitIdfReset
    \/ FitIdf
    \/ \E q \in SharedQueries, idx \in SharedDocIndices : ScoreCall(q, idx)
    \/ \E q \in SharedQueries : GetAllScoresCall(q)
    \/ ReadRange
    \/ NextIdx
    \/ ReadN
    \/ ReadDocLength
    \/ ReadTermFreqs
    \/ ReadTerm
    \/ ReadIdf
    \/ ReadAvgdl
    \/ ReadReturn

SpecShared == Init /\ [][NextShared]_vars

-----------------------------------------------------------------------------
(* Claims about BM25Engine, checked under SpecEngine *)

CorpusTerms(c) == UNION {Range(c[i]) : i \in DOMAIN c}

\* C1: after any sequence of fit calls (a fit of an empty corpus after a
\* non-empty one included) the index is derived from the last fitted corpus
\* only: the keys of doc_freqs and of idf are exactly the terms of that corpus,
\* doc_lengths and doc_term_freqs have N = len(corpus) entries, and the index is
\* the one a fresh engine gets from that corpus.
C1_IndexOfLastCorpusOnly ==
    /\ engine.N = Len(engine.corpus)
    /\ DOMAIN engine.doc_freqs = CorpusTerms(engine.corpus)
    /\ DOMAIN engine.idf = CorpusTerms(engine.corpus)
    /\ Len(engine.doc_lengths) = engine.N
    /\ Len(engine.doc_term_freqs) = engine.N
    /\ engine = BM25Engine_fit(BM25Engine_init, engine.corpus)

\* C2: score(query, doc_idx) returns 0 and raises nothing for every query and
\* every doc_idx that is out of range (doc_idx < 0 or doc_idx >= N), in every
\* state of the engine, the unfit one included.
C2_OutOfRangeScoresZero ==
    (ret.op = "score" /\ (ret.doc_idx < 0 \/ ret.doc_idx >= engine.N))
        => (ret.res.exc = "" /\ ret.res.value = 0)

\* C3: for a valid document index, score raises nothing, is >= 0, and is > 0
\* exactly when at least one query token occurs in that document.
C3_ScoreSign ==
    (ret.op = "score" /\ ret.doc_idx >= 0 /\ ret.doc_idx < engine.N)
        => /\ ret.res.exc = ""
           /\ ret.res.value >= 0
           /\ (ret.res.value > 0) <=>
                  (\E i \in DOMAIN ret.query :
                       ret.query[i] \in Range(engine.corpus[ret.doc_idx + 1]))

\* a query of one matching and one non-matching token scored positive on a valid document
C3_Witness ==
    /\ ret.op = "score" /\ ret.doc_idx >= 0 /\ ret.doc_idx < engine.N
    /\ ret.res.value > 0
    /\ \E i \in DOMAIN ret.query :
           ret.query[i] \notin Range(engine.corpus[ret.doc_idx + 1])

-----------------------------------------------------------------------------
(* Claims about HeuristicRanker, checked under Spec *)


\* a rank call has returned and its result is still held
Ranked == results.op = "rank" /\ results.res.exc = ""

ResultRows == results.res.value.rows

\* the fitted dataset (empty before any fit)
DatasetRows == IF df = None THEN <<>> ELSE df[1]

\* the tokens of each query text of the session
QueryTokens == [q \in TextQueries |-> preprocess_query(q)]

\* the raw lexical score of record i of the dataset for the query of the held result
RawScore(i) == BM25Engine_score(bm25, QueryTokens[results.query], i - 1).value

PassesStore(i) ==
    \/ results.store_filter = None
    \/ results.store_filter[1] \in {"", "Semua"}
    \/ DatasetRows[i].store = results.store_filter[1]

PassesText(i) == ~results.require_text_match \/ RawScore(i) > 0

\* C4: rank called before any fit, or after a fit with an empty dataset,
\* returns an empty result set and raises nothing, whatever its arguments.
C4_RankUnfittedIsEmpty ==
    (results.op = "rank" /\ DatasetRows = <<>>)
        => (results.res.exc = "" /\ ResultRows = <<>>)

\* rank was called on a ranker that was never fitted
C4_Witness == results.op = "rank" /\ df = None /\ results.top_k > 0

\* C5: the result of rank is ordered by final_score non-increasing, has exactly
\* min(top_k, number of records passing the category and text-match filters)
\* rows, and its rank column is 1, 2, ..., n in row order.
C5_OrderedTruncatedRanked ==
    Ranked =>
        /\ \A i \in 1..(Len(ResultRows) - 1) :
               ResultRows[i].final_score >= ResultRows[i + 1].final_score
        /\ Len(ResultRows) =
               Min(results.top_k,
                   Cardinality({i \in DOMAIN DatasetRows : PassesStore(i) /\ PassesText(i)}))
        /\ \A i \in DOMAIN ResultRows : ResultRows[i].rank = i

\* of two records passing the filters, top_k = 1 kept the second of the
\* dataset, which has the higher final score
C5_Witness ==
    /\ Ranked
    /\ Len(DatasetRows) = 2
    /\ \A i \in DOMAIN DatasetRows : PassesStore(i) /\ PassesText(i)
    /\ results.top_k = 1
    /\ Len(ResultRows) = 1
    /\ ResultRows[1].orig_index = 1
    /\ ResultRows[1].rank = 1

\* C6: any two records of the result with equal final_score appear in their
\* original dataset order (the sort by fused score is stable).
C6_TiesKeepDatasetOrder ==
    Ranked =>
        \A i, j \in DOMAIN ResultRows :
            (i < j /\ ResultRows[i].final_score = ResultRows[j].final_score)
                => ResultRows[i].orig_index < ResultRows[j].orig_index

\* C7: with require_text_match every returned record has a raw lexical score
\* > 0, so a query with no token or matching no document returns nothing;
\* without it no record is dropped because of its lexical score.
C7_TextMatchFilter ==
    Ranked =>
        /\ results.require_text_match =>
               /\ \A i \in DOMAIN ResultRows : ResultRows[i].bm25_score > 0
               /\ (\/ preprocess_query(results.query) = <<>>
                   \/ \A i \in DOMAIN DatasetRows : RawScore(i) = 0)
                      => ResultRows = <<>>
        /\ ~results.require_text_match =>
               Len(ResultRows) =
                   Min(results.top_k,
                       Cardinality({i \in DOMAIN DatasetRows : PassesStore(i)}))

\* a search requiring a text match returned a record and dropped another for its score
C7_Witness ==
    /\ Ranked /\ results.require_text_match
    /\ Len(ResultRows) >= 1
    /\ Len(ResultRows) < results.top_k
    /\ \E i \in DOMAIN DatasetRows : PassesStore(i) /\ RawScore(i) = 0

\* C8: every normalized lexical score lies in [0,1]; when all raw lexical
\* scores are equal every record's normalized score is 0.5, so an empty query
\* without require_text_match (no category filter, top_k not below the dataset
\* size) returns all records, each with normalized score 0.5.
C8_NormalizedScores ==
    Ranked =>
        /\ \A i \in DOMAIN ResultRows :
               ResultRows[i].bm25_score_norm >= 0 /\ ResultRows[i].bm25_score_norm <= Scale
        /\ (\A i, j \in DOMAIN DatasetRows : RawScore(i) = RawScore(j))
               => \A i \in DOMAIN ResultRows : 2 * ResultRows[i].bm25_score_norm = Scale
        /\ (/\ preprocess_query(results.query) = <<>>
            /\ ~results.require_text_match
            /\ \A i \in DOMAIN DatasetRows : PassesStore(i)
            /\ results.top_k >= Len(DatasetRows))
               => /\ Len(ResultRows) = Len(DatasetRows)
                  /\ \A i \in DOMAIN ResultRows : 2 * ResultRows[i].bm25_score_norm = Scale

\* an empty query without require_text_match returned both records of a dataset
C8_Witness ==
    /\ Ranked /\ results.query = "" /\ ~results.require_text_match
    /\ Len(DatasetRows) = 2 /\ Len(ResultRows) = 2
    /\ ResultRows[1].final_score > ResultRows[2].final_score

\* C9: without a complete reference coordinate every record gets distance_km
\* = 0 and distance_score = 0.5; with both coordinates every record's
\* distance_km is its Haversine distance to the reference point and its
\* distance_score is calculate_distance_score of that distance.
C9_DistanceColumns ==
    Ranked =>
        \A i \in DOMAIN ResultRows :
            IF results.user_lat # None /\ results.user_lon # None
            THEN /\ ResultRows[i].distance_km =
                        haversine_distance(results.user_lat[1], results.user_lon[1],
                                           ResultRows[i].latitude, ResultRows[i].longitude)
                 /\ ResultRows[i].distance_score =
                        calculate_distance_score(ResultRows[i].distance_km, None).value
            ELSE /\ ResultRows[i].distance_km = 0
                 /\ 2 * ResultRows[i].distance_score = Scale

\* a search with a latitude but no longitude returned a record
C9_Witness ==
    /\ Ranked /\ results.user_lat # None /\ results.user_lon = None
    /\ Len(ResultRows) >= 1

\* determine_relevance has returned the labels of the held result
Labelled == relevance.op = "determine_relevance" /\ relevance.res.exc = ""

Labels == relevance.res.value

\* one of the vetoes of determine_relevance fires on row r of the held result
VetoFires(r) ==
    \/ /\ relevance.user_lat # None /\ relevance.user_lon # None
       /\ 2 * r.distance_km > MAX_DISTANCE_KM * Scale
    \/ /\ Contains(lower(results.query), "alfa")
       /\ ~Contains(lower(r.store), "alfamart")
    \/ /\ Contains(lower(results.query), "indo")
       /\ ~Contains(lower(r.store), "indomaret")

\* C10: with a non-empty query, a record on which no veto fires is labelled
\* relevant if and only if its raw lexical score is strictly greater than the
\* median of the raw lexical scores of the result set passed in.
C10_AboveMedianIffRelevant ==
    (Labelled /\ strip(results.query) # "") =>
        \A i \in DOMAIN ResultRows :
            ~VetoFires(ResultRows[i]) =>
                (Labels[i] <=>
                    ResultRows[i].bm25_score >
                        np_median([j \in DOMAIN ResultRows |-> ResultRows[j].bm25_score]))

\* a query labelled one unvetoed record relevant and another, of lower score, not
C10_Witness ==
    /\ Labelled /\ strip(results.query) # ""
    /\ \E i, j \in DOMAIN ResultRows :
           /\ ~VetoFires(ResultRows[i]) /\ ~VetoFires(ResultRows[j])
           /\ Labels[i] /\ ~Labels[j]
           /\ ResultRows[j].bm25_score > 0

-----------------------------------------------------------------------------
(* Claims about determine_relevance without a query *)

\* the held result was ranked for an empty or whitespace-only query
NoQuery == strip(results.query) = ""

\* the median popularity of the held result, a missing popularity counted as 0
MedianPopularity ==
    np_median([j \in DOMAIN ResultRows |->
                  fillna(ResultRows[j].user_ratings_total, 0) * Scale])

\* criterion (a): the fused score is in the top quartile of the held result
InTopQuartile(r) ==
    r.final_score >= np_percentile_75([j \in DOMAIN ResultRows |-> ResultRows[j].final_score])

\* criterion (b): a rating of at least 4.0
WellRated(r) == r.rating_tempat # None /\ r.rating_tempat[1] >= 4 * Scale

\* the number of the three criteria a record with popularity p meets
CriteriaMet(r, p) ==
    (IF InTopQuartile(r) THEN 1 ELSE 0) + (IF WellRated(r) THEN 1 ELSE 0)
    + (IF p * Scale >= MedianPopularity THEN 1 ELSE 0)

-----------------------------------------------------------------------------
(* Claims about the vetoes of determine_relevance *)

\* both reference coordinates were passed to determine_relevance
Located == relevance.user_lat # None /\ relevance.user_lon # None

\* the record lies farther than half of MAX_DISTANCE_KM
BeyondHalfMaxDistance(r) == 2 * r.distance_km > MAX_DISTANCE_KM * Scale

\* the query names, as a substring, a chain the record does not belong to
CategoryVeto(r) ==
    \/ /\ Contains(lower(results.query), "alfa")
       /\ ~Contains(lower(r.store), "alfamart")
    \/ /\ Contains(lower(results.query), "indo")
       /\ ~Contains(lower(r.store), "indomaret")

\* the primary criterion of the path taken holds for the record: a lexical
\* score above the median with a query, 2 of the 3 criteria without (a
\* popularity that is not recorded meets no criterion)
PrimaryHolds(r) ==
    IF NoQuery
    THEN IF r.user_ratings_total = None
         THEN InTopQuartile(r) /\ WellRated(r)
         ELSE CriteriaMet(r, r.user_ratings_total[1]) >= 2
    ELSE r.bm25_score > np_median([j \in DOMAIN ResultRows |-> ResultRows[j].bm25_score])

QueryWords == [q \in TextQueries |-> Range(tokenize(clean_text(q)))]

\* the query mentions, as a word, a chain other than the record's
MentionsOtherCategory(r) ==
    \/ /\ QueryWords[results.query] \cap {"alfamart", "alfa"} # {}
       /\ lower(r.store) # "alfamart"
    \/ /\ QueryWords[results.query] \cap {"indomaret", "indo"} # {}
       /\ lower(r.store) # "indomaret"

\* C13: a record is vetoed for its category if and only if the query mentions
\* a category by its name or alias and the record's category is another one: a
\* record that meets the primary criterion and has no distance veto is
\* labelled relevant unless the query mentions another category, and a query
\* that merely contains another word vetoes nothing.
C13_CategoryVetoOnlyWhenMentioned ==
    Labelled =>
        \A i \in DOMAIN ResultRows :
            Labels[i] <=>
                /\ PrimaryHolds(ResultRows[i])
                /\ ~(Located /\ BeyondHalfMaxDistance(ResultRows[i]))
                /\ ~MentionsOtherCategory(ResultRows[i])

\* C14: a record whose popularity or rating is absent is judged as if the
\* value were 0: without a query, a record with no recorded popularity meets
\* criterion (c) exactly when 0 >= the median popularity of the result set, so
\* it is labelled as a record of popularity 0 would be.
C14_MissingPopularityCountsAsZero ==
    (Labelled /\ NoQuery) =>
        \A i \in DOMAIN ResultRows :
            ResultRows[i].user_ratings_total = None =>
                (Labels[i] <=>
                    /\ CriteriaMet(ResultRows[i], 0) >= 2
                    /\ ~(Located /\ BeyondHalfMaxDistance(ResultRows[i])))

-----------------------------------------------------------------------------
(* Claims about the rating, popularity and category steps of rank *)

\* the popularities recorded in the fitted dataset
RecordedPopularities ==
    {DatasetRows[j].user_ratings_total[1] :
        j \in {k \in DOMAIN DatasetRows : DatasetRows[k].user_ratings_total # None}}

\* the largest of them, 0 when none is recorded
MaxPopularity ==
    IF RecordedPopularities = {} THEN 0
    ELSE CHOOSE m \in RecordedPopularities : \A n \in RecordedPopularities : n <= m

\* C15: in a result of rank, rating_score is rating / 5 and popularity_score
\* is popularity / (maximum popularity), a missing rating or popularity counted
\* as 0; popularity_score is 0 for every record when the maximum popularity is
\* 0 or no popularity is recorded, and it always lies in [0,1].
C15_RatingAndPopularityScores ==
    Ranked =>
        \A i \in DOMAIN ResultRows :
            LET r == ResultRows[i]
                rating == IF r.rating_tempat = None THEN 0 ELSE r.rating_tempat[1]
                popularity ==
                    IF r.user_ratings_total = None THEN 0 ELSE r.user_ratings_total[1]
            IN  /\ r.rating_score = rating \div 5
                /\ r.popularity_score =
                       IF MaxPopularity = 0 THEN 0
                       ELSE (popularity * Scale) \div MaxPopularity
                /\ r.popularity_score >= 0 /\ r.popularity_score <= Scale

\* a result holds a record without rating and popularity, scored 0 for both,
\* next to the record of maximum popularity, scored 1
C15_Witness ==
    /\ Ranked
    /\ \E i, j \in DOMAIN ResultRows :
           /\ ResultRows[i].rating_tempat = None
           /\ ResultRows[i].user_ratings_total = None
           /\ ResultRows[i].rating_score = 0 /\ ResultRows[i].popularity_score = 0
           /\ ResultRows[j].popularity_score = Scale

\* the held search gave a category filter other than the sentinel 'Semua'
CategoryFilterGiven ==
    results.store_filter # None /\ results.store_filter[1] \notin {"", "Semua"}

\* C16: when a category filter is given and is not 'Semua', every record rank
\* returns has store exactly equal to the filter; when the filter is absent,
\* empty or 'Semua', no record is dropped for its category: the result holds
\* min(top_k, records passing the text filter) records.
C16_CategoryFilter ==
    Ranked =>
        IF CategoryFilterGiven
        THEN \A i \in DOMAIN ResultRows : ResultRows[i].store = results.store_filter[1]
        ELSE Len(ResultRows) =
                 Min(results.top_k,
                     Cardinality({i \in DOMAIN DatasetRows : PassesText(i)}))

\* a search filtered on one chain returned a record of it from a dataset that
\* also holds a record of the other chain that passes the text filter
C16_Witness ==
    /\ Ranked /\ CategoryFilterGiven
    /\ Len(ResultRows) >= 1
    /\ \E i \in DOMAIN DatasetRows :
           DatasetRows[i].store # results.store_filter[1] /\ PassesText(i)

-----------------------------------------------------------------------------
(* Claims about BM25Engine.search, checked under SpecEngine *)

\* a search call has returned and its result is still held
Searched == ret.op = "search"

\* the score of the document of index idx for the query of the held call
DocScore(idx) == BM25Engine_score(engine, ret.query, idx).value

\* the documents of the index whose score for that query is strictly positive
PositiveDocs == {idx \in 0..(engine.N - 1) : DocScore(idx) > 0}

\* C17: search(query, k) with k >= 0 returns exactly the min(k, P)
\* highest-scoring (doc_index, score) pairs among the P documents of strictly
\* positive score, in non-increasing score order, and never a document of
\* score 0, even when k > P.
C17_SearchTopPositive ==
    (Searched /\ ret.top_k >= 0) =>
        /\ ret.res.exc = ""
        /\ LET found == ret.res.value
               returned == {found[i][1] : i \in DOMAIN found}
           IN  /\ Len(found) = Min(ret.top_k, Cardinality(PositiveDocs))
               /\ Cardinality(returned) = Len(found)
               /\ returned \subseteq PositiveDocs
               /\ \A i \in DOMAIN found : found[i][2] = DocScore(found[i][1])
               /\ \A i \in 1..(Len(found) - 1) : found[i][2] >= found[i + 1][2]
               /\ \A out \in PositiveDocs \ returned :
                      \A i \in DOMAIN found : DocScore(out) <= found[i][2]

\* a search with k above the number of matching documents returned every
\* matching document and left out a document of score 0
C17_Witness ==
    /\ Searched /\ ret.res.exc = ""
    /\ Cardinality(PositiveDocs) >= 1
    /\ ret.top_k > Cardinality(PositiveDocs)
    /\ engine.N > Cardinality(PositiveDocs)
    /\ Len(ret.res.value) = Cardinality(PositiveDocs)

-----------------------------------------------------------------------------
(* Claims about Evaluator, checked under SpecEvaluator *)

\* the k a held call works with: its argument, or the evaluator's own k
GivenK == IF metrics.k = None THEN evaluator.k ELSE metrics.k[1]

\* the number of true labels among the first n entries of the held call's labels
TrueInFirst(n) ==
    Cardinality({i \in DOMAIN metrics.relevance : i <= n /\ metrics.relevance[i]})

\* the number of true labels of the held call
TotalTrue == TrueInFirst(Len(metrics.relevance))

\* C18: precision_at_k(labels, k) is (true labels among the first k) / k,
\* with the divisor k also when k exceeds the length of labels; it is 0 when
\* k <= 0 or labels is empty, and it lies in [0,1].
C18_PrecisionAtK ==
    metrics.op = "precision_at_k" =>
        /\ IF GivenK <= 0 \/ metrics.relevance = <<>>
           THEN metrics.res = 0
           ELSE metrics.res = (TrueInFirst(GivenK) * Scale) \div GivenK
        /\ metrics.res >= 0 /\ metrics.res <= Scale

\* a precision asked for with k above the number of labels, all of them true,
\* came out below 1
C18_Witness ==
    /\ metrics.op = "precision_at_k"
    /\ GivenK > Len(metrics.relevance)
    /\ TotalTrue = Len(metrics.relevance) /\ TotalTrue >= 1
    /\ metrics.res = (TotalTrue * Scale) \div GivenK /\ metrics.res < Scale

\* C19: recall_at_k(labels, k) is (true labels in the first k) / (true labels
\* in all of labels), 0 when no label is true; it lies in [0,1], does not
\* decrease when k grows, and is 1 for every k >= len(labels) when a label is
\* true.
C19_RecallAtK ==
    metrics.op = "recall_at_k" =>
        /\ IF TotalTrue = 0 THEN metrics.res = 0
           ELSE metrics.res = (TrueInFirst(GivenK) * Scale) \div TotalTrue
        /\ metrics.res >= 0 /\ metrics.res <= Scale
        /\ metrics.res >= recall_at_k(evaluator, metrics.relevance, Some(GivenK - 1))
        /\ (GivenK >= Len(metrics.relevance) /\ TotalTrue >= 1) => metrics.res = Scale

\* a recall strictly between 0 and 1, above the recall at k - 1
C19_Witness ==
    /\ metrics.op = "recall_at_k"
    /\ metrics.res > 0 /\ metrics.res < Scale
    /\ metrics.res > recall_at_k(evaluator, metrics.relevance, Some(GivenK - 1))
    /\ recall_at_k(evaluator, metrics.relevance, Some(GivenK - 1)) > 0

\* the precision at each 1-based position of the held call's labels that
\* carries a true label, 0 at the others
PrecisionAtTruePositions ==
    [i \in DOMAIN metrics.relevance |->
        IF metrics.relevance[i] THEN (TrueInFirst(i) * Scale) \div i ELSE 0]

\* C20: average_precision(labels) is the sum, over the 1-based positions i
\* that carry a true label, of (true labels in positions 1..i) / i, divided by
\* the number of true labels; it is 0 when there is none, lies in [0,1], is 1
\* for an all-true list, and is (1/1 + 2/3) / 2 for
\* [true, false, true, false, false].
C20_AveragePrecision ==
    metrics.op = "average_precision" =>
        /\ IF TotalTrue = 0 THEN metrics.res = 0
           ELSE metrics.res = SumSeq(PrecisionAtTruePositions) \div TotalTrue
        /\ metrics.res >= 0 /\ metrics.res <= Scale
        /\ (TotalTrue = Len(metrics.relevance) /\ TotalTrue >= 1) => metrics.res = Scale
        /\ metrics.relevance = <<TRUE, FALSE, TRUE, FALSE, FALSE>> =>
               metrics.res = (Scale + (2 * Scale) \div 3) \div 2

\* the average precision of [true, false, true, false, false] was computed
C20_Witness ==
    /\ metrics.op = "average_precision"
    /\ metrics.relevance = <<TRUE, FALSE, TRUE, FALSE, FALSE>>
    /\ metrics.res > 8 * (Scale \div 10) /\ metrics.res < 9 * (Scale \div 10)

-----------------------------------------------------------------------------
(* Claims about core/geo_utils.py, checked under SpecGeo *)

ScoredDistance == geo.op = "calculate_distance_score"

\* the max_distance in force for the recorded call, in km
MaxInForce ==
    IF geo.max_distance = None THEN MAX_DISTANCE_KM ELSE geo.max_distance[1]

\* C21: for a distance d >= 0 and a max_distance >= 0, calculate_distance_score
\* returns without raising (no division by zero, max_distance = 0 included);
\* the score is exactly 0 for every d at or beyond max_distance (d =
\* max_distance and max_distance = 0 included), equals max(0, 1 - d /
\* max_distance) below it, lies in [0, 1], is 1 at d = 0 for a positive
\* max_distance, and no larger distance gets a larger score.
C21_DistanceScoreLinearDecay ==
    ScoredDistance =>
        /\ geo.res.exc = ""
        /\ geo.res.value >= 0
        /\ geo.res.value <= Scale
        /\ geo.distance >= MaxInForce * Scale => geo.res.value = 0
        /\ geo.distance < MaxInForce * Scale =>
               geo.res.value
                   = Scale - (geo.distance * Scale) \div (MaxInForce * Scale)
        /\ (geo.distance = 0 /\ MaxInForce > 0) => geo.res.value = Scale
        /\ \A farther \in Distances :
               farther >= geo.distance =>
                   LET there == calculate_distance_score(farther, geo.max_distance)
                   IN  there.exc = "" /\ there.value <= geo.res.value

\* a call at distance 0 with max_distance 0: the score is 0 and nothing is
\* divided
C21_Witness ==
    /\ ScoredDistance
    /\ geo.distance = 0
    /\ geo.max_distance = Some(0)
    /\ geo.res = Return(0)

\* a call strictly inside the decay: 2.5 km of 5 km scores one half
C21_WitnessDecay ==
    /\ ScoredDistance
    /\ geo.distance = 25000
    /\ geo.max_distance = Some(5)
    /\ geo.res = Return(Scale \div 2)

-----------------------------------------------------------------------------
(* Claims about ComponentEvaluator, checked under SpecComponent *)

\* C22: evaluate_distance never fails: for an empty sequence of distances it
\* returns the all-zero report, and for every non-empty one a report whose
\* distance_precision is the fraction, among the valid distances of the first
\* min(k, n), of those within the 5 km cutoff; evaluate_components of a
\* non-empty result returns its two reports likewise.
C22_EvaluateDistanceNeverFails ==
    /\ report.op = "evaluate_distance" =>
           /\ report.res.exc = ""
           /\ Len(report.input) = 0 => report.res.value = ZeroDistanceReport
           /\ Len(report.input) > 0 =>
                  report.res.value.distance_precision
                      = distance_precision(component_evaluator, report.input,
                                           MAX_RELEVANT_DISTANCE)
    /\ report.op = "evaluate_components" => report.res.exc = ""

Bm25Reported == report.op = "evaluate_bm25" /\ Len(report.input) > 0

\* the labels that thresholding the reported scores at t gives
LabelsAbove(t) == [i \in DOMAIN report.input |-> report.input[i] > t]

\* min(k, n) of the reported scores
ReportedTopK == Min(component_evaluator.k, Len(report.input))

\* the precision and recall that the labels give over the first min(k, n)
\* positions, to four places
PrecisionOfLabels(labels) ==
    round4(Cardinality({i \in 1..ReportedTopK : labels[i]}), ReportedTopK)

RecallOfLabels(labels) ==
    IF \E i \in DOMAIN labels : labels[i]
    THEN round4(Cardinality({i \in 1..ReportedTopK : labels[i]}),
                Cardinality({i \in DOMAIN labels : labels[i]}))
    ELSE 0

\* the median of the strictly positive scores, 0 when there is none
MedianOfPositive ==
    IF \E i \in DOMAIN report.input : report.input[i] > 0
    THEN np_median(SelectSeq(report.input, LAMBDA x : x > 0))
    ELSE 0

\* C26 (as stated): evaluate_bm25 thresholds the scores at the median of all
\* the scores of the sequence: a score is BM25-relevant iff it is strictly
\* greater, and bm25_precision and bm25_recall are the count of such labels in
\* the first min(k, n) positions divided by min(k, n) and by the number of such
\* labels.
C26_ThresholdIsMedianOfAllScores ==
    Bm25Reported =>
        LET labels == LabelsAbove(np_median(report.input))
        IN  /\ report.res.value.bm25_precision = PrecisionOfLabels(labels)
            /\ report.res.value.bm25_recall = RecallOfLabels(labels)

\* C26 (amended): evaluate_bm25 thresholds the scores at the median of the
\* strictly positive scores of the sequence (0 when no score is positive): a
\* score is BM25-relevant iff it is strictly greater, and bm25_precision and
\* bm25_recall are the count of such labels in the first min(k, n) positions
\* divided by min(k, n) and by the number of such labels (0 when there is
\* none).
C26_ThresholdIsMedianOfPositiveScores ==
    Bm25Reported =>
        LET labels == LabelsAbove(MedianOfPositive)
        IN  /\ report.res.exc = ""
            /\ report.res.value.bm25_precision = PrecisionOfLabels(labels)
            /\ report.res.value.bm25_recall = RecallOfLabels(labels)

\* scores 3, 1 and 0 with k = 2: the median of the positive scores is 2, only
\* the first score is above it, precision 1/2 and recall 1
C26_Witness ==
    /\ Bm25Reported
    /\ report.input = <<3 * Scale, Scale, 0>>
    /\ component_evaluator.k = 2
    /\ report.res.value.bm25_precision = Scale \div 2
    /\ report.res.value.bm25_recall = Scale

-----------------------------------------------------------------------------
(* Claims about datasets with a structural problem, checked under
   SpecDefective *)

\* C23: a dataset that lacks a required column (rating, popularity, latitude,
\* longitude, category) is rejected by fit: no ranker is fitted with such a
\* dataset, and no rank call fails for a column the dataset lacks.
C23_StructuralProblemsDetectedByFit ==
    /\ (df # None /\ Len(df[1]) > 0) => RequiredColumns \subseteq Columns(df[1])
    /\ results.op = "rank" => results.res.exc # "KeyError"

-----------------------------------------------------------------------------
(* Claims about the fitted state, checked under Spec *)

\* a step of rank, determine_relevance, score, get_all_scores, search or
\* get_query_match_stats: a result, a list of labels or a returned value appears
QueryStep ==
    \/ results.op = "none" /\ results'.op = "rank"
    \/ relevance.op = "none" /\ relevance'.op = "determine_relevance"
    \/ ret.op = "none" /\ ret'.op # "none"

\* C24: rank, determine_relevance, score, get_all_scores, search and
\* get_query_match_stats leave every field of the fitted instance as it was:
\* df and corpus of the ranker and the whole index of its BM25Engine (N,
\* doc_lengths, avgdl, doc_freqs, idf, doc_term_freqs), so that the value a
\* query returns is the one it returns right after fit.
C24_QueriesLeaveFittedStateUnchanged ==
    [][QueryStep => (df' = df /\ corpus' = corpus /\ bm25' = bm25)]_vars

\* a search made and labelled on a fitted ranker whose frame still has the
\* nine columns of the dataset
C24_Witness ==
    /\ results.op = "rank" /\ results.res.exc = ""
    /\ Len(results.res.value.rows) > 0
    /\ relevance.op = "determine_relevance"
    /\ df # None /\ Len(df[1]) > 0
    /\ "bm25_score" \notin DOMAIN df[1][1]
    /\ "bm25_score" \in DOMAIN results.res.value.rows[1]

-----------------------------------------------------------------------------
(* Claims about a BM25Engine shared by two threads, checked under SpecShared *)

\* fit has assigned corpus and N and not yet doc_lengths
BetweenNAndDocLengths == writer.pc = "doc_lengths"

\* C25: fit is not atomic for a concurrent reader.  Between its assignment of
\* N and that of doc_lengths the instance holds corpus and N of the corpus
\* being fitted together with doc_lengths, doc_term_freqs and idf of the
\* previous fit; a score or get_all_scores call that ends in IndexError has
\* passed the test doc_idx < N and then found a list too short for doc_idx (an
\* index valid for the new N but beyond the old doc_lengths).
C25_FitIsNotAtomic ==
    /\ BetweenNAndDocLengths =>
           /\ engine.corpus = writer.corpus
           /\ engine.N = Len(writer.corpus)
           /\ engine.doc_lengths = writer.before.doc_lengths
           /\ engine.doc_term_freqs = writer.before.doc_term_freqs
           /\ engine.idf = writer.before.idf
    /\ (reader.pc = "done" /\ reader.res.exc = "IndexError") =>
           /\ reader.seen_len <= reader.doc_idx
           /\ reader.doc_idx < reader.n

\* the torn index seen: on an instance fitted with one document, fit of two
\* documents has assigned N = 2 and not yet doc_lengths; score of document 1
\* passed doc_idx < N and met doc_lengths of length 1
C25_Witness ==
    /\ BetweenNAndDocLengths
    /\ writer.before.N = 1 /\ Len(writer.before.doc_lengths) = 1
    /\ engine.N = 2 /\ Len(engine.doc_lengths) = 1
    /\ reader.pc = "done" /\ reader.op = "score" /\ reader.doc_idx = 1
    /\ reader.n = 2 /\ reader.seen_len = 1
    /\ reader.res = Raise("IndexError")

-----------------------------------------------------------------------------
(* Claims about the labels of a search with a query, checked under Spec *)

HasQuery == strip(results.query) # ""

\* every record of the held result has the same raw lexical score
SameLexicalScore ==
    \A i, j \in DOMAIN ResultRows : ResultRows[i].bm25_score = ResultRows[j].bm25_score

Evaluated == metrics.op = "evaluate"

\* C27: for a result of n records and a non-empty query determine_relevance
\* labels at most floor(n / 2) records relevant; when every record has the same
\* raw lexical score (a single record, a query of stopwords only without the
\* text-match filter) no record is relevant, and precision, recall and average
\* precision of the labels are all 0.
C27_AtMostHalfRelevant ==
    (Ranked /\ Labelled /\ HasQuery) =>
        /\ Cardinality({i \in DOMAIN Labels : Labels[i]}) <= Len(ResultRows) \div 2
        /\ SameLexicalScore =>
               /\ \A i \in DOMAIN Labels : ~Labels[i]
               /\ Evaluated =>
                      /\ metrics.relevance = Labels
                      /\ metrics.res.precision_k = 0
                      /\ metrics.res.recall_k = 0
                      /\ metrics.res.average_precision = 0

\* two records, both with lexical score 0 for the stopword query "di", kept
\* without the text-match filter: none is relevant and the metrics are 0
C27_Witness ==
    /\ Ranked /\ Labelled /\ Evaluated
    /\ results.query = "di"
    /\ ~results.require_text_match
    /\ Len(ResultRows) = 2
    /\ Labels = <<FALSE, FALSE>>
    /\ metrics.res.precision_k = 0 /\ metrics.res.average_precision = 0

\* two records of different lexical score: exactly the better one may be
\* relevant
C27_WitnessOneOfTwo ==
    /\ Ranked /\ Labelled /\ Evaluated /\ HasQuery
    /\ Len(ResultRows) = 2
    /\ ~SameLexicalScore
    /\ Cardinality({i \in DOMAIN Labels : Labels[i]}) = 1

\* per query text of the session: it contains an Alfamart alias and an
\* Indomaret alias
MentionsBothChains ==
    [q \in TextQueries |->
        /\ Contains(lower(q), "alfamart") \/ Contains(lower(q), "alfa")
        /\ Contains(lower(q), "indomaret") \/ Contains(lower(q), "indo")]

\* C28: when the query contains both an Alfamart alias and an Indomaret alias,
\* determine_relevance labels every record not relevant, whatever its category
\* (Alfamart or Indomaret), scores and distance.
C28_BothChainsMentionedNothingRelevant ==
    (Ranked /\ Labelled /\ MentionsBothChains[results.query]) =>
        \A i \in DOMAIN Labels : ~Labels[i]

\* the query "indomaret alfamart" on two records, labelled without a reference
\* point: one record lies above the median lexical score and is still not
\* relevant
C28_Witness ==
    /\ Ranked /\ Labelled
    /\ results.query = "indomaret alfamart"
    /\ relevance.user_lat = None
    /\ Len(ResultRows) = 2
    /\ ResultRows[1].bm25_score > ResultRows[2].bm25_score
    /\ ResultRows[1].store = "Alfamart"
    /\ Labels = <<FALSE, FALSE>>

\* the rankings rank may return for the query and reference point of the held
\* result with no filter and no truncation
UnfilteredRankings ==
    {u.value.rows :
        u \in rank(ranker, results.query, results.user_lat, results.user_lon,
                   None, Len(DatasetRows), FALSE)}

\* the position in ranking u of the record with index orig_index of the dataset
PositionIn(u, orig_index) == CHOOSE p \in DOMAIN u : u[p].orig_index = orig_index

\* a category or text-match filter is set in the held result
FilterSet == StoreFilterActive(results.store_filter) \/ results.require_text_match

\* every row of the held result carries the bm25_score_norm, popularity_score
\* and final_score its record has in the unfiltered ranking
FilterIndependentScores ==
    (Ranked /\ FilterSet) =>
        \A u \in UnfilteredRankings : \A i \in DOMAIN ResultRows :
            LET r == ResultRows[i]
                a == u[PositionIn(u, r.orig_index)]
            IN  /\ r.bm25_score_norm = a.bm25_score_norm
                /\ r.popularity_score = a.popularity_score
                /\ r.final_score = a.final_score

\* any two rows of the held result come in the order their records have in
\* the unfiltered ranking
FilterIndependentOrder ==
    (Ranked /\ FilterSet) =>
        \A u \in UnfilteredRankings : \A i, j \in DOMAIN ResultRows :
            i < j => PositionIn(u, ResultRows[i].orig_index)
                         < PositionIn(u, ResultRows[j].orig_index)

FilteredBestBelowOne ==
    /\ Ranked /\ FilterSet
    /\ Len(DatasetRows) = 2 /\ Len(ResultRows) = 1
    /\ ResultRows[1].bm25_score_norm < Scale

\* the terms of the documents of corpus c
Vocabulary(c) == UNION {Range(c[i]) : i \in DOMAIN c}

\* score reaches its denominator for term t of document i: t is in idf and
\* the document holds it
DenominatorEvaluated(i, t) ==
    t \in DOMAIN engine.idf /\ DictGet(engine.doc_term_freqs[i], t, 0) > 0

\* C30: score never divides by zero. No call ends in ZeroDivisionError;
\* wherever score evaluates the denominator for a term, avgdl > 0; after a fit
\* on a non-empty corpus a term is in idf only if a document of the corpus
\* holds it; and when all documents of that corpus are empty, avgdl = 0, the
\* vocabulary is empty and every score is 0.
C30_ScoreNeverDividesByZero ==
    /\ ret.res.exc # "ZeroDivisionError"
    /\ \A i \in DOMAIN engine.doc_term_freqs : \A t \in DOMAIN engine.idf :
           DenominatorEvaluated(i, t) => engine.avgdl > 0
    /\ engine.N > 0 => DOMAIN engine.idf = Vocabulary(engine.corpus)
    /\ (engine.N > 0 /\ engine.avgdl = 0) =>
           /\ engine.idf = EmptyDict
           /\ (ret.op = "score" /\ ret.res.exc = "") => ret.res.value = 0
           /\ ret.op = "get_all_scores" =>
                  ret.res = Return([i \in 1..engine.N |-> 0])

\* a fit on two empty documents (avgdl = 0), then score of a query of two
\* terms for the first document: 0
C30_Witness ==
    /\ engine.corpus = <<<<>>, <<>>>>
    /\ engine.N = 2 /\ engine.avgdl = 0
    /\ ret.op = "score" /\ ret.doc_idx = 0 /\ Len(ret.query) = 2
    /\ ret.res = Return(0)

\* a fit on an empty and a non-empty document, then a score that evaluated
\* the denominator
C30_WitnessDenominator ==
    /\ engine.corpus = <<<<>>, <<"indomaret">>>>
    /\ engine.avgdl = Scale \div 2
    /\ ret.op = "score" /\ ret.doc_idx = 1 /\ ret.query = <<"indomaret">>
    /\ DenominatorEvaluated(2, "indomaret")
    /\ ret.res.exc = "" /\ ret.res.value > 0

====
